---- MODULE Spec2Model ----
(***************************************************************************)
(* Model of the ObsidianGitHistory plugin (src/main.ts):                   *)
(*   - GitService.syncDirectories (copy pass + prune pass) over two        *)
(*     directory trees,                                                    *)
(*   - GitHubTrackerPlugin.promoteChanges, the promotion pipeline,         *)
(*   - ReportGenerator.parseDiff / GitService.parseDiffOutput, the two     *)
(*     diff classifiers.                                                   *)
(***************************************************************************)
EXTENDS Integers, Sequences, FiniteSets, TLC

(***************************************************************************)
(* Bounds                                                                  *)
(***************************************************************************)
\* deepest path (number of segments) a tree of the sync model holds
MaxDepth == 2
\* most entries (files and directories below the root) of one tree
MaxEntries == 2
\* most invocations of the promotion command in one behaviour
MaxRuns == 1
\* most lines of a diff text handed to parseDiff
MaxLines == 5
\* most calls of sync in one behaviour
MaxSyncs == 2
\* most invocations of the promotion command that overlap
MaxCalls == 2
\* last reading of the clock, in half seconds
MaxClock == 3
\* most reports generated in one behaviour
MaxReports == 2
\* most restarts of one invocation of the promotion command
MaxRestarts == 2
\* most operations that wait on a dialog in one behaviour
MaxDialogs == 2

(***************************************************************************)
(* Directory trees.  A tree is a function from the paths that exist        *)
(* (sequences of names, <<>> is the root) to an entry: a directory or a    *)
(* file with a content.                                                    *)
(***************************************************************************)
Names == {".git", ".obsidian", "Update Logs", "d", "x"}
\* the order in which readdirSync lists the names of a directory
NameOrder == <<".git", ".obsidian", "Update Logs", "d", "x">>
Contents == {1, 2}

Dir == [k |-> "dir", c |-> 0]
File(c) == [k |-> "file", c |-> c]
Entries == {Dir} \cup {File(c) : c \in Contents}
EmptyTree == (<<>> :> Dir)

existsSync(t, p) == p \in DOMAIN t
isDirectory(t, p) == p \in DOMAIN t /\ t[p].k = "dir"
isFile(t, p) == p \in DOMAIN t /\ t[p].k = "file"
join(p, item) == Append(p, item)
dirname(p) == SubSeq(p, 1, Len(p) - 1)
IsPrefix(p, q) == Len(p) <= Len(q) /\ SubSeq(q, 1, Len(p)) = p
\* readdirSync: the names of the entries of directory p, in listing order
readdirSync(t, p) ==
    SelectSeq(NameOrder, LAMBDA n : join(p, n) \in DOMAIN t)

\* the result of a filesystem pass: the target tree, whether an error was
\* thrown, and the numbers of copyFileSync and unlinkSync/rmdirSync calls
FsResult(t, err, copies, dels) ==
    [t |-> t, err |-> err, copies |-> copies, dels |-> dels]

\* mkdirSync(p, {recursive: true}): creates p and its missing ancestors;
\* throws (ENOTDIR/EEXIST) when p or an ancestor exists as a file
mkdirSync(t, p) ==
    LET anc == {SubSeq(p, 1, i) : i \in 0..Len(p)}
    IN  IF \E a \in anc : isFile(t, a)
        THEN [t |-> t, err |-> TRUE]
        ELSE [t |-> [q \in (DOMAIN t) \cup anc |->
                        IF q \in DOMAIN t THEN t[q] ELSE Dir],
              err |-> FALSE]

\* copyFileSync(src, dst): writes content c at p; throws when p is a
\* directory (EISDIR) or the parent of p is not a directory (ENOTDIR/ENOENT)
copyFileSync(t, p, c) ==
    IF isDirectory(t, p) \/ ~isDirectory(t, dirname(p))
    THEN [t |-> t, err |-> TRUE]
    ELSE [t |-> [q \in (DOMAIN t) \cup {p} |->
                    IF q = p THEN File(c) ELSE t[q]],
          err |-> FALSE]

RECURSIVE copyDirectoryRecursive(_, _, _)
RECURSIVE CopyItems(_, _, _, _)

\* the for loop of copyDirectoryRecursive over the listed items
CopyItems(src, st, p, items) ==
    IF st.err \/ items = <<>> THEN st
    ELSE
      LET item == Head(items)
          sourcePath == join(p, item)
          next ==
            IF item = ".git" THEN st
            ELSE IF isDirectory(src, sourcePath)
            THEN copyDirectoryRecursive(src, st, sourcePath)
            ELSE \* a file: create dirname(targetPath) if missing, then copy
              LET d == IF existsSync(st.t, p)
                       THEN [t |-> st.t, err |-> FALSE]
                       ELSE mkdirSync(st.t, p)
              IN  IF d.err THEN FsResult(d.t, TRUE, st.copies, st.dels)
                  ELSE LET w == copyFileSync(d.t, sourcePath, src[sourcePath].c)
                       IN  FsResult(w.t, w.err,
                                    IF w.err THEN st.copies ELSE st.copies + 1,
                                    st.dels)
      IN  CopyItems(src, next, p, Tail(items))

copyDirectoryRecursive(src, st, p) ==
    LET d == IF existsSync(st.t, p)
             THEN [t |-> st.t, err |-> FALSE]
             ELSE mkdirSync(st.t, p)
    IN  IF d.err THEN FsResult(d.t, TRUE, st.copies, st.dels)
        ELSE CopyItems(src, FsResult(d.t, FALSE, st.copies, st.dels),
                       p, readdirSync(src, p))

\* removeDirectoryRecursive: removes dirPath and everything below it
removeDirectoryRecursive(st, dirPath) ==
    LET gone == {q \in DOMAIN st.t : IsPrefix(dirPath, q)}
    IN  FsResult([q \in (DOMAIN st.t) \ gone |-> st.t[q]], st.err,
                 st.copies, st.dels + Cardinality(gone))

unlinkSync(st, p) ==
    FsResult([q \in (DOMAIN st.t) \ {p} |-> st.t[q]], st.err,
             st.copies, st.dels + 1)

RECURSIVE removeDeletedFiles(_, _, _)
RECURSIVE PruneItems(_, _, _, _)

RECURSIVE PruneItemsFlat(_, _, _, _)
\* PruneItems that looks every item up in the top directory of the source
\* (join(source, item) with the source root) instead of the matching one
PruneItemsFlat(src, st, p, items) ==
    IF st.err \/ items = <<>> THEN st
    ELSE
      LET item == Head(items)
          path == join(p, item)
          next ==
            IF item = ".git" \/ item = ".obsidian" \/ item = "Update Logs"
            THEN st
            ELSE IF isDirectory(st.t, path)
            THEN IF ~existsSync(src, <<item>>)
                 THEN removeDirectoryRecursive(st, path)
                 ELSE removeDeletedFiles(src, st, path)
            ELSE IF ~existsSync(src, <<item>>) THEN unlinkSync(st, path)
                 ELSE st
      IN  PruneItemsFlat(src, next, p, Tail(items))

\* the for loop of removeDeletedFiles over the listed items of the target
PruneItems(src, st, p, items) ==
    IF st.err \/ items = <<>> THEN st
    ELSE
      LET item == Head(items)
          path == join(p, item)
          next ==
            IF item = ".git" \/ item = ".obsidian" \/ item = "Update Logs"
            THEN st
            ELSE IF isDirectory(st.t, path)
            THEN IF ~existsSync(src, path)
                 THEN removeDirectoryRecursive(st, path)
                 ELSE removeDeletedFiles(src, st, path)
            ELSE IF ~existsSync(src, path) THEN unlinkSync(st, path)
                 ELSE st
      IN  PruneItems(src, next, p, Tail(items))

removeDeletedFiles(src, st, p) ==
    IF ~existsSync(st.t, p) THEN st
    ELSE PruneItems(src, st, p, readdirSync(st.t, p))

\* syncDirectories: the copy pass, then (unless it threw) the prune pass
syncDirectories(src, tgt) ==
    LET c == copyDirectoryRecursive(src, FsResult(tgt, FALSE, 0, 0), <<>>)
    IN  IF c.err THEN c ELSE removeDeletedFiles(src, c, <<>>)

(***************************************************************************)
(* Diff text.  The output of git diff is a sequence of lines; a line is a  *)
(* record [k, a, b, n]: k is the kind of line, a and b its paths or        *)
(* phrase, n its number.  A path is the sequence of its "/"-separated      *)
(* segments.                                                               *)
(***************************************************************************)
NoPath == <<>>
\* "/dev/null" and "dev/null"
SlashDevNull == <<"", "dev", "null">>
DevNull == <<"dev", "null">>

Line(k, a, b, n) == [k |-> k, a |-> a, b |-> b, n |-> n]
\* "diff --git a/<a> b/<b>"
Header(a, b) == Line("header", a, b, 0)
\* "similarity index <n>%"
Sim(n) == Line("sim", NoPath, NoPath, n)
\* "rename from <p>", "rename to <p>"
RenameFrom(p) == Line("renfrom", p, NoPath, 0)
RenameTo(p) == Line("rento", p, NoPath, 0)
\* "new file mode 100644", "deleted file mode 100644", "index 1a2b..3c4d"
NewFileMode == Line("newfile", NoPath, NoPath, 0)
DeletedFileMode == Line("delfile", NoPath, NoPath, 0)
IndexLine == Line("index", NoPath, NoPath, 0)
\* "--- a/<p>", "+++ b/<p>", "@@ -1 +1 @@"
Minus(p) == Line("minus", p, NoPath, 0)
Plus(p) == Line("plus", p, NoPath, 0)
Hunk == Line("hunk", NoPath, NoPath, 0)
\* a line of a hunk: "+<phrase> <p>" or "+<phrase> <n>%"; the phrase is the
\* text the line carries
Body(phrase, p, n) == Line("body", <<phrase>>, p, n)

\* String.prototype.toLowerCase on the phrase of a body line
toLowerCase(phrase) ==
    CASE phrase = "Rename From" -> "rename from"
      [] phrase = "Rename To" -> "rename to"
      [] OTHER -> phrase

\* line.toLowerCase().includes(marker), marker one of "rename from",
\* "rename to", "new file mode", "deleted file mode"
LineIncludes(line, marker) ==
    \/ line.k = "renfrom" /\ marker = "rename from"
    \/ line.k = "rento" /\ marker = "rename to"
    \/ line.k = "newfile" /\ marker = "new file mode"
    \/ line.k = "delfile" /\ marker = "deleted file mode"
    \/ line.k = "body" /\ toLowerCase(line.a[1]) = marker

\* sectionText.includes(marker)
includes(section, marker) ==
    \E i \in 1..Len(section) : LineIncludes(section[i], marker)

\* the line matches /rename from (.+)/ (case-sensitive)
MatchesRenameFrom(line) ==
    \/ line.k = "renfrom" /\ line.a # NoPath
    \/ line.k = "body" /\ line.a[1] = "rename from" /\ line.b # NoPath

\* the line matches /similarity index (\d+)%/
MatchesSimilarity(line) ==
    \/ line.k = "sim"
    \/ line.k = "body" /\ line.a[1] = "similarity index"

\* index of the first line of the section among those in S, 0 when S is empty
FirstLine(S) ==
    IF S = {} THEN 0 ELSE CHOOSE i \in S : \A j \in S : i <= j

\* the lines of the section that match /rename from (.+)/, /similarity
\* index (\d+)%/, and that start the diff content
RenameFromLines(section) ==
    {i \in 1..Len(section) : MatchesRenameFrom(section[i])}
SimilarityLines(section) ==
    {i \in 1..Len(section) : MatchesSimilarity(section[i])}

\* directory names whose text ends in " b"
SpaceB == " b"
Stems == {"docs"}
StemOf(seg) == CHOOSE s \in Stems : s \o SpaceB = seg
EndsInSpaceB(seg) == \E s \in Stems : s \o SpaceB = seg

\* firstLine.match(/a\/(.+?) b\/(.+?)$/): the two groups of the match on
\* the header text "a/<a> b/<b>", <<>> when the text holds no such pair.
\* The match starts at the leading "a/"; the first group is lazy and ends
\* before the first " b/" of the text, which lies inside <a> when a
\* directory of <a> ends in " b"; the second group runs to the end of the
\* line.
pathMatch(line) ==
    IF line.k = "header" /\ line.a # NoPath /\ line.b # NoPath
    THEN LET a == line.a
             cut == FirstLine({i \in 1..(Len(a) - 1) : EndsInSpaceB(a[i])})
         IN  IF cut = 0 THEN <<a, line.b>>
             ELSE <<SubSeq(a, 1, cut - 1) \o <<StemOf(a[cut])>>,
                    SubSeq(a, cut + 1, Len(a) - 1)
                      \o <<a[Len(a)] \o SpaceB>> \o line.b>>
    ELSE <<>>

\* diffOutput.split(/^diff --git /m).filter(section => section.trim()):
\* the text before the first header (if any), then one section per header
fileSections(diffOutput) ==
    LET hs == {i \in 1..Len(diffOutput) : diffOutput[i].k = "header"}
        starts == IF diffOutput # <<>> /\ 1 \notin hs THEN hs \cup {1} ELSE hs
        end(i) == IF \E j \in hs : j > i
                  THEN (CHOOSE j \in hs : j > i /\ \A m \in hs : m > i => j <= m) - 1
                  ELSE Len(diffOutput)
        nth(m) == CHOOSE i \in starts : Cardinality({j \in starts : j < i}) = m - 1
    IN  [m \in 1..Cardinality(starts) |-> SubSeq(diffOutput, nth(m), end(nth(m)))]

\* names that begin with a dot
DotNames == {".git", ".obsidian", ".gitignore", ".trash"}

\* ReportGenerator.shouldExcludeFile
shouldExcludeFile(filePath) ==
    \/ Len(filePath) >= 2 /\ filePath[1] = ".obsidian"
    \/ filePath = <<".gitignore">>
    \/ Len(filePath) >= 2 /\ filePath[1] = ".git"
    \/ Len(filePath) >= 2 /\ filePath[1] = "Update Logs"
    \/ Len(filePath) >= 1 /\ filePath[1] \in DotNames

NoFile == [path |-> NoPath, status |-> "none", changes |-> <<>>, oldPath |-> NoPath]

\* ClassifySection that reads the last similarity line of the section and
\* records the old path of pure moves only
ClassifySectionLastMatch(section) ==
    LET pm == pathMatch(section[1])
        rf == FirstLine(RenameFromLines(section))
        sims == SimilarityLines(section)
        sm == IF sims = {} THEN 0
              ELSE CHOOSE i \in sims : \A j \in sims : j <= i
        moved == sm # 0 /\ section[sm].n = 100
    IN  IF includes(section, "rename from") /\ includes(section, "rename to")
        THEN [status |-> IF moved THEN "moved" ELSE "modified",
              path |-> pm[2],
              oldPath |-> IF rf = 0 \/ ~moved THEN NoPath
                          ELSE IF section[rf].k = "renfrom" THEN section[rf].a
                          ELSE section[rf].b]
        ELSE [status |-> "modified", path |-> pm[2], oldPath |-> NoPath]

\* ClassifySection that reads the old path off the first "rename from" line
\* before the if/else chain, whichever branch is then taken
ClassifySectionEagerOldPath(section) ==
    LET pm == pathMatch(section[1])
        pathA == pm[1]
        pathB == pm[2]
        rf == FirstLine(RenameFromLines(section))
        sm == FirstLine(SimilarityLines(section))
        old == IF rf = 0 THEN NoPath
               ELSE IF section[rf].k = "renfrom" THEN section[rf].a
               ELSE section[rf].b
    IN  IF includes(section, "rename from") /\ includes(section, "rename to")
        THEN [status |-> IF sm # 0 /\ section[sm].n = 100
                         THEN "moved" ELSE "modified",
              path |-> pathB, oldPath |-> old]
        ELSE IF pathA = SlashDevNull \/ pathA = DevNull
        THEN [status |-> "added", path |-> pathB, oldPath |-> old]
        ELSE IF pathB = SlashDevNull \/ pathB = DevNull
        THEN [status |-> "deleted", path |-> pathA, oldPath |-> old]
        ELSE IF includes(section, "new file mode")
        THEN [status |-> "added", path |-> pathB, oldPath |-> old]
        ELSE IF includes(section, "deleted file mode")
        THEN [status |-> "deleted", path |-> pathA, oldPath |-> old]
        ELSE [status |-> "modified", path |-> pathB, oldPath |-> old]

\* the status, path and old path parseDiff gives a section with a valid
\* header (the if/else chain on rename markers, /dev/null and file modes)
ClassifySection(section) ==
    LET pm == pathMatch(section[1])
        pathA == pm[1]
        pathB == pm[2]
        rf == FirstLine(RenameFromLines(section))
        sm == FirstLine(SimilarityLines(section))
    IN  IF includes(section, "rename from") /\ includes(section, "rename to")
        THEN [status |-> IF sm # 0 /\ section[sm].n = 100
                         THEN "moved" ELSE "modified",
              path |-> pathB,
              oldPath |-> IF rf = 0 THEN NoPath
                          ELSE IF section[rf].k = "renfrom" THEN section[rf].a
                          ELSE section[rf].b]
        ELSE IF pathA = SlashDevNull \/ pathA = DevNull
        THEN [status |-> "added", path |-> pathB, oldPath |-> NoPath]
        ELSE IF pathB = SlashDevNull \/ pathB = DevNull
        THEN [status |-> "deleted", path |-> pathA, oldPath |-> NoPath]
        ELSE IF includes(section, "new file mode")
        THEN [status |-> "added", path |-> pathB, oldPath |-> NoPath]
        ELSE IF includes(section, "deleted file mode")
        THEN [status |-> "deleted", path |-> pathA, oldPath |-> NoPath]
        ELSE [status |-> "modified", path |-> pathB, oldPath |-> NoPath]

\* line.startsWith('@@') || line.startsWith('+++') || line.startsWith('---')
StartsDiffContent(line) == line.k \in {"hunk", "plus", "minus"}

\* ParseSection that files a section without a pair of paths as a modified
\* file with no path
ParseSectionNoSkip(section) ==
    IF pathMatch(section[1]) = <<>>
    THEN [path |-> NoPath, status |-> "modified", changes |-> section,
          oldPath |-> NoPath]
    ELSE LET cl == ClassifySection(section)
             diffContentStart ==
               FirstLine({i \in 1..Len(section) : StartsDiffContent(section[i])})
         IN  IF shouldExcludeFile(cl.path) THEN NoFile
             ELSE [path |-> cl.path,
                   status |-> cl.status,
                   changes |-> IF diffContentStart > 0
                               THEN SubSeq(section, diffContentStart, Len(section))
                               ELSE section,
                   oldPath |-> cl.oldPath]

\* the DiffFile parseDiff pushes for one section, NoFile when it skips it
ParseSection(section) ==
    IF pathMatch(section[1]) = <<>> THEN NoFile
    ELSE LET cl == ClassifySection(section)
             diffContentStart ==
               FirstLine({i \in 1..Len(section) : StartsDiffContent(section[i])})
         IN  IF shouldExcludeFile(cl.path) THEN NoFile
             ELSE [path |-> cl.path,
                   status |-> cl.status,
                   changes |-> IF diffContentStart > 0
                               THEN SubSeq(section, diffContentStart, Len(section))
                               ELSE section,
                   oldPath |-> cl.oldPath]

\* filesByStatus before the first section
NoFilesByStatus == [added |-> <<>>, modified |-> <<>>, deleted |-> <<>>,
                    moved |-> <<>>]

\* PushStatus that has no list for moves and files them as modified
PushStatusNoMoved(filesByStatus, status, filePath) ==
    IF status = "added"
    THEN [filesByStatus EXCEPT !.added = Append(@, filePath)]
    ELSE IF status = "deleted"
    THEN [filesByStatus EXCEPT !.deleted = Append(@, filePath)]
    ELSE [filesByStatus EXCEPT !.modified = Append(@, filePath)]

\* "Add to appropriate status array": the if/else chain of pushes
PushStatus(filesByStatus, status, filePath) ==
    IF status = "added"
    THEN [filesByStatus EXCEPT !.added = Append(@, filePath)]
    ELSE IF status = "deleted"
    THEN [filesByStatus EXCEPT !.deleted = Append(@, filePath)]
    ELSE IF status = "moved"
    THEN [filesByStatus EXCEPT !.moved = Append(@, filePath)]
    ELSE [filesByStatus EXCEPT !.modified = Append(@, filePath)]

RECURSIVE parseDiffFrom(_, _, _)
\* the for loop of parseDiff over the sections: a section that is not
\* skipped pushes its path on one list of filesByStatus and its record on
\* files
parseDiffFrom(sections, files, filesByStatus) ==
    IF sections = <<>> THEN [files |-> files, filesByStatus |-> filesByStatus]
    ELSE LET f == ParseSection(Head(sections))
         IN  IF f = NoFile
             THEN parseDiffFrom(Tail(sections), files, filesByStatus)
             ELSE parseDiffFrom(Tail(sections), Append(files, f),
                                PushStatus(filesByStatus, f.status, f.path))

\* "Calculate statistics"
DiffStatsOf(filesByStatus) ==
    [filesAdded |-> Len(filesByStatus.added),
     filesModified |-> Len(filesByStatus.modified),
     filesDeleted |-> Len(filesByStatus.deleted),
     filesMoved |-> Len(filesByStatus.moved),
     totalFiles |-> Len(filesByStatus.added) + Len(filesByStatus.modified)
                    + Len(filesByStatus.deleted) + Len(filesByStatus.moved)]

\* ReportGenerator.parseDiff: the files, the per-status lists and the stats
parseDiff(diffOutput) ==
    LET r == parseDiffFrom(fileSections(diffOutput), <<>>, NoFilesByStatus)
    IN  [files |-> r.files,
         filesByStatus |-> r.filesByStatus,
         stats |-> DiffStatsOf(r.filesByStatus)]

RECURSIVE parseDiffOutputFrom(_, _)
\* the for loop of GitService.parseDiffOutput over the lines
parseDiffOutputFrom(lines, acc) ==
    IF lines = <<>> THEN acc
    ELSE
      LET line == Head(lines)
          match == pathMatch(line)
          next ==
            IF line.k # "header" \/ match = <<>> THEN acc
            ELSE LET fileA == match[1]
                     fileB == match[2]
                 IN  IF fileA = SlashDevNull
                     THEN [acc EXCEPT !.added = Append(@, fileB)]
                     ELSE IF fileB = SlashDevNull
                     THEN [acc EXCEPT !.deleted = Append(@, fileA)]
                     ELSE IF fileA # fileB
                     THEN [acc EXCEPT !.deleted = Append(@, fileA),
                                      !.added = Append(@, fileB)]
                     ELSE [acc EXCEPT !.modified = Append(@, fileA)]
      IN  parseDiffOutputFrom(Tail(lines), next)

\* GitService.parseDiffOutput
parseDiffOutput(diffOutput) ==
    parseDiffOutputFrom(diffOutput,
                        [added |-> <<>>, modified |-> <<>>, deleted |-> <<>>])

(***************************************************************************)
(* Repository contents.  A snapshot gives every file its content version,  *)
(* 0 when the file is absent.                                              *)
(***************************************************************************)
Files == {<<"a.md">>, <<"b.md">>}
\* the order in which git lists paths
FileOrder == <<<<"a.md">>, <<"b.md">>>>
\* the content versions a file can have; 0 is "absent"
Versions(f) == IF f = <<"a.md">> THEN {0, 1, 2} ELSE {0, 1}
Snapshots == {s \in [Files -> {0, 1, 2}] : \A f \in Files : s[f] \in Versions(f)}
FilePos(f) == CHOOSE i \in 1..Len(FileOrder) : FileOrder[i] = f
LeastFile(S) == CHOOSE f \in S : \A g \in S : FilePos(f) <= FilePos(g)

RECURSIVE RenamePairs(_, _, _, _, _)
\* git's exact-rename detection: pairs a deleted file with an added file of
\* the same content
RenamePairs(old, new, dels, adds, acc) ==
    IF dels = {} THEN acc
    ELSE LET d == LeastFile(dels)
             cands == {g \in adds : new[g] = old[d]}
         IN  IF cands = {} THEN RenamePairs(old, new, dels \ {d}, adds, acc)
             ELSE RenamePairs(old, new, dels \ {d}, adds \ {LeastFile(cands)},
                              acc \cup {<<d, LeastFile(cands)>>})

\* the section git diff prints for file f
DiffSectionOf(old, new, f, renames) ==
    IF \E r \in renames : r[1] = f THEN <<>>
    ELSE IF \E r \in renames : r[2] = f
    THEN LET r == CHOOSE r \in renames : r[2] = f
         IN  <<Header(r[1], f), Sim(100), RenameFrom(r[1]), RenameTo(f)>>
    ELSE IF old[f] = new[f] THEN <<>>
    ELSE IF old[f] = 0
    THEN <<Header(f, f), NewFileMode, IndexLine, Minus(SlashDevNull), Plus(f),
           Hunk, Body("text", NoPath, new[f])>>
    ELSE IF new[f] = 0
    THEN <<Header(f, f), DeletedFileMode, IndexLine, Minus(f),
           Plus(SlashDevNull), Hunk, Body("text", NoPath, old[f])>>
    ELSE <<Header(f, f), IndexLine, Minus(f), Plus(f), Hunk,
           Body("text", NoPath, old[f]), Body("text", NoPath, new[f])>>

RECURSIVE GitDiffFrom(_, _, _, _)
GitDiffFrom(old, new, order, renames) ==
    IF order = <<>> THEN <<>>
    ELSE DiffSectionOf(old, new, Head(order), renames)
         \o GitDiffFrom(old, new, Tail(order), renames)

\* the standard output of "git diff --no-color origin/main origin/working"
GitDiff(old, new) ==
    GitDiffFrom(old, new, FileOrder,
                RenamePairs(old, new,
                            {f \in Files : old[f] # 0 /\ new[f] = 0},
                            {f \in Files : old[f] = 0 /\ new[f] # 0}, {}))

(***************************************************************************)
(* State                                                                   *)
(***************************************************************************)
VARIABLES
    source,      \* the source tree of sync (the working vault)
    target,      \* the target tree of sync (the production vault)
    target0,     \* the target tree as it was when sync was called
    syncPc,      \* "setup", "done" (sync returned) or "failed" (sync threw)
    syncCopies,  \* files copied by the last sync
    syncDels,    \* entries deleted by the last sync
    syncRuns     \* calls of sync so far

syncVars == <<source, target, target0, syncPc, syncCopies, syncDels, syncRuns>>

VARIABLES
    settings,       \* this.settings: the persisted plugin settings
    env,            \* the machine: where git is, which vaults are repositories
    workTree,       \* files of the working vault
    index,          \* staged content of the working repository
    workHead,       \* content of the last commit of the local branch working
    remoteWorking,  \* branch working on the remote
    remoteMain,     \* branch main on the remote
    prodTracked,    \* tracked files of the local production vault
    reports,        \* number of reports stored under Update Logs
    pc,             \* position of promoteChanges
    outcome,        \* what the run reported when it ended
    changes,        \* result of parseDiffOutput in this run, or NoChanges
    approved,       \* the caller confirmed the summary in this run
    phaseLog,       \* phases entered since the run (re)started, in order
    publishLog,     \* pushes issued by this run: <<branch, mode>>
    base,           \* the state when promoteChanges was invoked
    runs,           \* invocations of the promotion command so far
    restarts        \* times this invocation called promoteChanges again

promoVars == <<settings, env, workTree, index, workHead, remoteWorking,
               remoteMain, prodTracked, reports, pc, outcome, changes,
               approved, phaseLog, publishLog, base, runs, restarts>>

VARIABLES
    diffText,    \* the diff output handed to parseDiff
    parsed,      \* the GitDiffResult parseDiff returned, or NotParsed
    diffPc,      \* "build" while the text grows, "parsed" after parseDiff
    alphabet     \* the lines the diff text of this behaviour is made of

diffVars == <<diffText, parsed, diffPc, alphabet>>

VARIABLES
    identity,        \* where a git user name and email are configured
    requirements,    \* the list checkSystemRequirements handed to its modal
    setupPc,         \* position of the settings tab's commands
    useTokenInUrl,   \* settings.useTokenInUrl
    originHasToken,  \* the url of the remote origin embeds the token
    shown,           \* what performGitSetup showed: Notices, console lines
    configWrites,    \* the git config commands that succeeded: <<scope, cwd>>
    identityStep     \* what the identity modal of performGitSetup did

reqVars == <<identity, requirements, setupPc, useTokenInUrl, originHasToken,
             shown, configWrites, identityStep>>

VARIABLES
    calls,     \* invocations of the command "Promote Changes": the await
               \* each has reached, 0 before it is invoked
    lastCall   \* the invocation that ran last, 0 before any

concVars == <<calls, lastCall>>

VARIABLES
    clock,      \* the system clock, in half seconds
    generated   \* the calls of generateReport: arguments and returned text

reportVars == <<clock, generated>>

VARIABLES
    thrown,      \* the error that is propagating, or that sync surfaced
    frames       \* the try blocks the error has still to pass, innermost first

faultVars == <<thrown, frames>>

VARIABLES
    awaiter,     \* the operation that awaits the promise of a dialog
    modal,       \* the dialog: "open" or "closed"
    promise,     \* the awaited promise: "pending", or the value it resolved to
    inputs,      \* the text fields of GitConfigModal and the check's result
    ended        \* the operations that returned, with the value they resumed on

dialogVars == <<awaiter, modal, promise, inputs, ended>>

vars == <<syncVars, promoVars, diffVars, reqVars, concVars, reportVars,
          faultVars, dialogVars>>

FoundPath == "C:\\Program Files\\Git\\cmd\\git.exe"
NoChanges == [added |-> <<"-">>, modified |-> <<"-">>, deleted |-> <<"-">>]
NoBase == [settings |-> "-"]
NoIdentityStep == [asked |-> FALSE, saved |-> FALSE, globalOk |-> FALSE]
SettingFields == {"workingVaultPath", "productionVaultPath", "githubToken",
                  "githubRepoOwner", "githubRepoName"}
AllSet == [f \in SettingFields \cup {"customGitPath"} |->
              IF f = "customGitPath" THEN "" ELSE "set"]
ZeroSnapshot == [f \in Files |-> 0]

NotParsed == [files |-> <<>>, filesByStatus |-> "-", stats |-> "-"]

\* the classifier variables while another model runs
DiffIdle ==
    /\ diffText = <<>>
    /\ parsed = NotParsed
    /\ diffPc = "build"
    /\ alphabet = {}

\* no report has been generated
ReportIdle ==
    /\ clock = 0
    /\ generated = <<>>

NoError == [origin |-> "none", code |-> "none", message |-> <<>>]

NoInputs == [name |-> "", email |-> "", allPassed |-> FALSE, notice |-> ""]

\* no operation waits on a dialog
DialogIdle ==
    /\ awaiter = "none"
    /\ modal = "closed"
    /\ promise = "none"
    /\ inputs = NoInputs
    /\ ended = <<>>

\* no filesystem error is traced
FaultIdle ==
    /\ thrown = NoError
    /\ frames = <<>>

\* no command "Promote Changes" is traced
ConcIdle ==
    /\ calls = [c \in 1..MaxCalls |-> 0]
    /\ lastCall = 0

\* the requirement-check variables while another model runs
ReqIdle ==
    /\ identity = [globalConfig |-> TRUE, pluginSettings |-> FALSE]
    /\ requirements = <<>>
    /\ setupPc = "idle"
    /\ useTokenInUrl = TRUE
    /\ originHasToken = FALSE
    /\ shown = {}
    /\ configWrites = {}
    /\ identityStep = NoIdentityStep

\* no promotion run has started
PromoRunIdle ==
    /\ workTree = ZeroSnapshot
    /\ index = ZeroSnapshot
    /\ workHead = ZeroSnapshot
    /\ remoteWorking = ZeroSnapshot
    /\ remoteMain = ZeroSnapshot
    /\ prodTracked = ZeroSnapshot
    /\ reports = 0
    /\ pc = "idle"
    /\ outcome = "none"
    /\ changes = NoChanges
    /\ approved = FALSE
    /\ phaseLog = <<>>
    /\ publishLog = <<>>
    /\ base = NoBase
    /\ runs = 0
    /\ restarts = 0

\* the promotion variables while the sync model runs
PromoIdle ==
    /\ settings = AllSet
    /\ env = [gitOnPath |-> TRUE, altGit |-> FALSE, win32 |-> FALSE,
              workExists |-> TRUE, prodExists |-> TRUE,
              workIsRepo |-> TRUE, prodIsRepo |-> TRUE]
    /\ PromoRunIdle

\* the sync variables while the promotion model runs
SyncIdle ==
    /\ source = EmptyTree
    /\ target = EmptyTree
    /\ target0 = EmptyTree
    /\ syncPc = "setup"
    /\ syncCopies = 0
    /\ syncDels = 0
    /\ syncRuns = 0

NumEntries(t) == Cardinality(DOMAIN t) - 1

\* the directories of t that can take one more child
OpenDirs(t) == {p \in DOMAIN t : t[p].k = "dir" /\ Len(p) < MaxDepth}

WithEntry(t, p, e) ==
    [q \in (DOMAIN t) \cup {p} |-> IF q = p THEN e ELSE t[q]]

SyncInit ==
    /\ source = EmptyTree
    /\ target = EmptyTree
    /\ target0 = EmptyTree
    /\ syncPc = "setup"
    /\ syncCopies = 0
    /\ syncDels = 0
    /\ syncRuns = 0
    /\ PromoIdle
    /\ DiffIdle
    /\ ReqIdle
    /\ ConcIdle
    /\ ReportIdle
    /\ FaultIdle
    /\ DialogIdle

\* the user creates a file or directory in the working vault
AddSource ==
    /\ syncPc = "setup"
    /\ NumEntries(source) < MaxEntries
    /\ \E p \in OpenDirs(source), n \in Names, e \in Entries :
         /\ join(p, n) \notin DOMAIN source
         /\ source' = WithEntry(source, join(p, n), e)
    /\ UNCHANGED <<target, target0, syncPc, syncCopies, syncDels, syncRuns,
                   promoVars, diffVars, reqVars, concVars, reportVars,
                   faultVars, dialogVars>>

\* the production vault holds a file or directory before the sync
AddTarget ==
    /\ syncPc = "setup"
    /\ NumEntries(target) < MaxEntries
    /\ \E p \in OpenDirs(target), n \in Names, e \in Entries :
         /\ join(p, n) \notin DOMAIN target
         /\ target' = WithEntry(target, join(p, n), e)
    /\ target0' = target'
    /\ UNCHANGED <<source, syncPc, syncCopies, syncDels, syncRuns, promoVars,
                   diffVars, reqVars, concVars, reportVars, faultVars,
                   dialogVars>>

\* GitService.syncDirectories(source, target), called on the trees as they
\* are: the first call, or the next call after one that returned
Sync ==
    /\ syncPc \in {"setup", "done"}
    /\ syncRuns < MaxSyncs
    /\ LET r == syncDirectories(source, target)
       IN  /\ target' = r.t
           /\ syncPc' = IF r.err THEN "failed" ELSE "done"
           /\ syncCopies' = r.copies
           /\ syncDels' = r.dels
    /\ target0' = target
    /\ syncRuns' = syncRuns + 1
    /\ UNCHANGED <<source, promoVars, diffVars, reqVars, concVars, reportVars,
                   faultVars, dialogVars>>

SyncNext == AddSource \/ AddTarget \/ Sync

SyncSpec == SyncInit /\ [][SyncNext]_vars

(***************************************************************************)
(* The promotion pipeline: GitHubTrackerPlugin.promoteChanges              *)
(***************************************************************************)
\* GitHubTrackerPlugin.validateConfiguration: the first complaint, or "valid"
validateConfiguration(st, e) ==
    IF st.workingVaultPath = "" THEN "workingVaultPath"
    ELSE IF st.productionVaultPath = "" THEN "productionVaultPath"
    ELSE IF ~e.workExists THEN "workExists"
    ELSE IF ~e.prodExists THEN "prodExists"
    ELSE IF st.githubToken = "" THEN "githubToken"
    ELSE IF st.githubRepoOwner = "" THEN "githubRepoOwner"
    ELSE IF st.githubRepoName = "" THEN "githubRepoName"
    ELSE "valid"

\* GitService.getGitCommand: customGitPath || 'git'
getGitCommand(customGitPath) ==
    IF customGitPath # "" THEN customGitPath ELSE "git"

\* the shell finds the program a git command names
Runnable(e, gitCmd) == IF gitCmd = "git" THEN e.gitOnPath ELSE e.altGit

\* GitService.checkGitInstalled: 'git --version' runs
checkGitInstalled(st, e) == Runnable(e, getGitCommand(st.customGitPath))

\* GitService.findGitOnWindows: the discovered path, "" for null
findGitOnWindows(e) == IF e.altGit THEN FoundPath ELSE ""

\* the phase a step of promoteChanges belongs to
Enter(phase) ==
    IF phaseLog # <<>> /\ phaseLog[Len(phaseLog)] = phase
    THEN phaseLog ELSE Append(phaseLog, phase)

TotalFiles(ch) == Len(ch.added) + Len(ch.modified) + Len(ch.deleted)

\* what one promotion run can change
RunState ==
    [settings |-> settings, index |-> index, workHead |-> workHead,
     remoteWorking |-> remoteWorking, remoteMain |-> remoteMain,
     prodTracked |-> prodTracked, reports |-> reports]

\* the run ends: a Notice (or modal) reports the outcome
Finish(o) == pc' = "done" /\ outcome' = o

PromoInit ==
    /\ SyncIdle
    /\ DiffIdle
    /\ ReqIdle
    /\ ConcIdle
    /\ ReportIdle
    /\ FaultIdle
    /\ DialogIdle
    /\ \E missing \in SettingFields \cup {"workExists", "prodExists", "none"},
          custom \in {"", FoundPath},
          gitOnPath \in BOOLEAN, altGit \in BOOLEAN, win32 \in BOOLEAN,
          workIsRepo \in BOOLEAN, prodIsRepo \in BOOLEAN :
         \* one thing is wrong at a time: a faulty configuration is tried
         \* on a machine that is otherwise in order
         /\ missing # "none" =>
               custom = "" /\ gitOnPath /\ ~altGit /\ ~win32
               /\ workIsRepo /\ prodIsRepo
         /\ settings = [f \in SettingFields \cup {"customGitPath"} |->
                           IF f = "customGitPath" THEN custom
                           ELSE IF f = missing THEN "" ELSE "set"]
         /\ env = [gitOnPath |-> gitOnPath, altGit |-> altGit, win32 |-> win32,
                   workExists |-> missing # "workExists",
                   prodExists |-> missing # "prodExists",
                   workIsRepo |-> workIsRepo, prodIsRepo |-> prodIsRepo]
    /\ \E m \in Snapshots, w \in Snapshots :
         /\ remoteMain = m
         /\ prodTracked = m
         /\ remoteWorking = w
         /\ workHead = w
         /\ index = w
         /\ workTree = w
    /\ reports = 0
    /\ pc = "idle"
    /\ outcome = "none"
    /\ changes = NoChanges
    /\ approved = FALSE
    /\ phaseLog = <<>>
    /\ publishLog = <<>>
    /\ base = NoBase
    /\ runs = 0
    /\ restarts = 0

\* the user edits, creates or deletes a file of the working vault
UserEdit ==
    /\ \/ pc \in {"idle", "confirm"}
       \/ pc = "done" /\ runs < MaxRuns
    /\ \E f \in Files :
         \E v \in Versions(f) :
           /\ workTree[f] # v
           /\ workTree' = [workTree EXCEPT ![f] = v]
    /\ UNCHANGED <<settings, env, index, workHead, remoteWorking, remoteMain,
                   prodTracked, reports, pc, outcome, changes, approved,
                   phaseLog, publishLog, base, runs, restarts, syncVars, diffVars, reqVars,
                   concVars, reportVars, faultVars, dialogVars>>

\* the command "Promote Changes" is invoked
Invoke ==
    /\ pc \in {"idle", "done"}
    /\ runs < MaxRuns
    /\ runs' = runs + 1
    /\ restarts' = 0
    /\ pc' = "validate"
    /\ outcome' = "none"
    /\ changes' = NoChanges
    /\ approved' = FALSE
    /\ phaseLog' = <<>>
    /\ publishLog' = <<>>
    /\ base' = RunState
    /\ UNCHANGED <<settings, env, workTree, index, workHead, remoteWorking,
                   remoteMain, prodTracked, reports, syncVars, diffVars, reqVars,
                   concVars, reportVars, faultVars, dialogVars>>

\* promoteChanges, lines 2001-2006: validateConfiguration
Validate ==
    /\ pc = "validate"
    /\ phaseLog' = Enter("Validate")
    /\ IF validateConfiguration(settings, env) = "valid"
       THEN pc' = "checkGit" /\ UNCHANGED outcome
       ELSE Finish("invalidConfiguration")
    /\ UNCHANGED <<settings, env, workTree, index, workHead, remoteWorking,
                   remoteMain, prodTracked, reports, changes, approved,
                   publishLog, base, runs, restarts, syncVars, diffVars, reqVars,
                   concVars, reportVars, faultVars, dialogVars>>

\* lines 2021-2023: await checkGitInstalled; when git is missing on Windows
\* the search follows, elsewhere the modal "Git is not installed"
CheckGit ==
    /\ pc = "checkGit"
    /\ phaseLog' = Enter("Validate")
    /\ IF checkGitInstalled(settings, env)
       THEN pc' = "checkWorkRepo" /\ UNCHANGED outcome
       ELSE IF env.win32
       THEN pc' = "findGit" /\ UNCHANGED outcome
       ELSE Finish("gitNotInstalled")
    /\ UNCHANGED <<settings, env, workTree, index, workHead, remoteWorking,
                   remoteMain, prodTracked, reports, changes, approved,
                   publishLog, base, runs, restarts, syncVars, diffVars,
                   reqVars, concVars, reportVars, faultVars, dialogVars>>

\* lines 2025-2045: await findGitOnWindows; a found path is persisted and
\* promoteChanges is called again, no path found ends in the modal
FindGit ==
    /\ pc = "findGit"
    /\ IF findGitOnWindows(env) # ""
       THEN /\ restarts < MaxRestarts
            /\ settings' = [settings EXCEPT !.customGitPath = findGitOnWindows(env)]
            /\ restarts' = restarts + 1
            /\ pc' = "validate"
            /\ phaseLog' = <<>>
            /\ UNCHANGED outcome
       ELSE /\ Finish("gitNotInstalled")
            /\ UNCHANGED <<settings, restarts, phaseLog>>
    /\ UNCHANGED <<env, workTree, index, workHead, remoteWorking, remoteMain,
                   prodTracked, reports, changes, approved, publishLog, base,
                   runs, syncVars, diffVars, reqVars, concVars, reportVars,
                   faultVars, dialogVars>>

\* while promoteChanges awaits the check or the search, an installer or
\* updater removes or restores the git found at the common location
GitInstallChanges ==
    /\ pc \in {"validate", "checkGit", "findGit"}
    /\ env.win32
    /\ env' = [env EXCEPT !.altGit = ~env.altGit]
    /\ UNCHANGED <<settings, workTree, index, workHead, remoteWorking,
                   remoteMain, prodTracked, reports, pc, outcome, changes,
                   approved, phaseLog, publishLog, base, runs, restarts,
                   syncVars, diffVars, reqVars, concVars, reportVars,
                   faultVars, dialogVars>>

\* CheckWorkRepo with the return after the Notice left out
CheckWorkRepoNoReturn ==
    /\ pc = "checkWorkRepo"
    /\ pc' = "checkProdRepo"
    /\ outcome' = IF env.workIsRepo THEN outcome ELSE "notARepository"
    /\ UNCHANGED <<settings, env, workTree, index, workHead, remoteWorking,
                   remoteMain, prodTracked, reports, changes, approved,
                   phaseLog, publishLog, base, runs, restarts, syncVars, diffVars, reqVars,
                   concVars, reportVars, faultVars, dialogVars>>

\* lines 2047-2052: the working vault must be a repository
CheckWorkRepo ==
    /\ pc = "checkWorkRepo"
    /\ IF env.workIsRepo
       THEN pc' = "checkProdRepo" /\ UNCHANGED outcome
       ELSE Finish("notARepository")
    /\ UNCHANGED <<settings, env, workTree, index, workHead, remoteWorking,
                   remoteMain, prodTracked, reports, changes, approved,
                   phaseLog, publishLog, base, runs, restarts, syncVars, diffVars, reqVars,
                   concVars, reportVars, faultVars, dialogVars>>

\* lines 2054-2059: the production vault must be a repository
CheckProdRepo ==
    /\ pc = "checkProdRepo"
    /\ IF env.prodIsRepo
       THEN pc' = "add" /\ UNCHANGED outcome
       ELSE Finish("notARepository")
    /\ UNCHANGED <<settings, env, workTree, index, workHead, remoteWorking,
                   remoteMain, prodTracked, reports, changes, approved,
                   phaseLog, publishLog, base, runs, restarts, syncVars, diffVars, reqVars,
                   concVars, reportVars, faultVars, dialogVars>>

\* line 2064: git add -A in the working vault; a fatal error is thrown to the
\* outer catch, whose Notice is "Failed to promote changes: Git command
\* failed: <stderr>"
StageAll ==
    /\ pc = "add"
    /\ phaseLog' = Enter("SyncWorkingBranchToRemote")
    /\ \E ok \in BOOLEAN :
         IF ok THEN index' = workTree /\ pc' = "commit" /\ UNCHANGED outcome
         ELSE Finish("gitCommandFailed") /\ UNCHANGED index
    /\ UNCHANGED <<settings, env, workTree, workHead, remoteWorking, remoteMain,
                   prodTracked, reports, changes, approved, publishLog, base,
                   runs, restarts, syncVars, diffVars, reqVars, concVars, reportVars,
                   faultVars, dialogVars>>

\* the ways git commit ends when there are staged changes: it commits; it
\* fails and its stderr carries "fatal:" or "error:"; it fails and its stderr
\* carries neither (a pre-commit or commit-msg hook that rejects the commit)
CommitResults == {"committed", "failedMarked", "failedUnmarked"}

\* executeGitCommand, lines 96-109: a failed command throws only when its
\* stderr contains "fatal:" or "error:"
Throws(result) == result = "failedMarked"

\* lines 2065-2074: commit; "nothing to commit" returns normally; a failure
\* that executeGitCommand throws reaches the outer catch as "Failed to create
\* commit: ..."; one it does not throw returns normally and the run goes on
Commit ==
    /\ pc = "commit"
    /\ IF index = workHead
       THEN pc' = "push" /\ UNCHANGED <<workHead, outcome>>
       ELSE \E result \in CommitResults :
              IF result = "committed"
              THEN workHead' = index /\ pc' = "push" /\ UNCHANGED outcome
              ELSE IF Throws(result)
              THEN Finish("createCommitFailed") /\ UNCHANGED workHead
              ELSE pc' = "push" /\ UNCHANGED <<workHead, outcome>>
    /\ UNCHANGED <<settings, env, workTree, index, remoteWorking, remoteMain,
                   prodTracked, reports, changes, approved, phaseLog,
                   publishLog, base, runs, restarts, syncVars, diffVars, reqVars,
                   concVars, reportVars, faultVars, dialogVars>>

\* lines 2078-2079: git push origin working; a failure leads to the retry
Push ==
    /\ pc = "push"
    /\ publishLog' = Append(publishLog, <<"working", "plain">>)
    /\ \E ok \in BOOLEAN :
         IF ok THEN remoteWorking' = workHead /\ pc' = "diff"
         ELSE pc' = "pushLease" /\ UNCHANGED remoteWorking
    /\ UNCHANGED <<settings, env, workTree, index, workHead, remoteMain,
                   prodTracked, reports, outcome, changes, approved, phaseLog,
                   base, runs, restarts, syncVars, diffVars, reqVars, concVars,
                   reportVars, faultVars, dialogVars>>

\* lines 2080-2084: git push origin working --force-with-lease; its failure
\* reaches the outer catch as "Git command failed: <stderr>"
PushLease ==
    /\ pc = "pushLease"
    /\ publishLog' = Append(publishLog, <<"working", "force-with-lease">>)
    /\ \E ok \in BOOLEAN :
         IF ok THEN remoteWorking' = workHead /\ pc' = "diff" /\ UNCHANGED outcome
         ELSE Finish("gitCommandFailed") /\ UNCHANGED remoteWorking
    /\ UNCHANGED <<settings, env, workTree, index, workHead, remoteMain,
                   prodTracked, reports, changes, approved, phaseLog, base,
                   runs, restarts, syncVars, diffVars, reqVars, concVars, reportVars,
                   faultVars, dialogVars>>

\* the GitService that GitService.diff constructs for its three commands:
\* new GitService(workingVaultPath, '')
workingGitService == [customGitPath |-> ""]

\* GitService.diff: the two fetches and the diff run with the default git
\* command; when that is not runnable the shell's message carries neither
\* "fatal:" nor "error:" and executeGitCommand returns an empty stdout
diff(e, main, working, ok) ==
    IF ~Runnable(e, getGitCommand(workingGitService.customGitPath))
    THEN [thrown |-> FALSE, stdout |-> <<>>]
    ELSE IF ~ok THEN [thrown |-> TRUE, stdout |-> <<>>]
    ELSE [thrown |-> FALSE, stdout |-> GitDiff(main, working)]

\* the branch on totalFiles with a comparison that no total satisfies
NothingToPromoteNever(ch) == TotalFiles(ch) < 0

\* the branch on totalFiles, lines 2092-2096
NothingToPromote(ch) == TotalFiles(ch) = 0

\* lines 2086-2106: diff, parseDiffOutput and the check for no changes
ComputeDiff ==
    /\ pc = "diff"
    /\ phaseLog' = Enter("ComputeDiff")
    /\ \E ok \in BOOLEAN :
         LET d == diff(env, remoteMain, remoteWorking, ok)
             ch == parseDiffOutput(d.stdout)
         IN  IF d.thrown THEN Finish("getDiffFailed") /\ UNCHANGED changes
             ELSE /\ changes' = ch
                  /\ IF NothingToPromote(ch)
                     THEN Finish("nothingToPromote")
                     ELSE pc' = "confirm" /\ UNCHANGED outcome
    /\ UNCHANGED <<settings, env, workTree, index, workHead, remoteWorking,
                   remoteMain, prodTracked, reports, approved, publishLog,
                   base, runs, restarts, syncVars, diffVars, reqVars, concVars,
                   reportVars, faultVars, dialogVars>>

\* ConfirmPromotionModal: the Confirm button
Confirm ==
    /\ pc = "confirm"
    /\ phaseLog' = Enter("AwaitConfirmation")
    /\ approved' = TRUE
    /\ pc' = "pushForce"
    /\ UNCHANGED <<settings, env, workTree, index, workHead, remoteWorking,
                   remoteMain, prodTracked, reports, outcome, changes,
                   publishLog, base, runs, restarts, syncVars, diffVars, reqVars,
                   concVars, reportVars, faultVars, dialogVars>>

\* Cancel with the test of the decision left out: the run goes on
CancelIgnored ==
    /\ pc = "confirm"
    /\ phaseLog' = Enter("AwaitConfirmation")
    /\ pc' = "pushForce"
    /\ UNCHANGED <<settings, env, workTree, index, workHead, remoteWorking,
                   remoteMain, prodTracked, reports, outcome, changes, approved,
                   publishLog, base, runs, restarts, syncVars, diffVars, reqVars,
                   concVars, reportVars, faultVars, dialogVars>>

\* ConfirmPromotionModal: the Cancel button, lines 2118-2121
Cancel ==
    /\ pc = "confirm"
    /\ phaseLog' = Enter("AwaitConfirmation")
    /\ Finish("cancelled")
    /\ UNCHANGED <<settings, env, workTree, index, workHead, remoteWorking,
                   remoteMain, prodTracked, reports, changes, approved,
                   publishLog, base, runs, restarts, syncVars, diffVars, reqVars,
                   concVars, reportVars, faultVars, dialogVars>>

\* lines 2125-2134: git push origin working --force
PushForce ==
    /\ pc = "pushForce"
    /\ phaseLog' = Enter("SyncWorkingBranchToRemote")
    /\ publishLog' = Append(publishLog, <<"working", "force">>)
    /\ \E ok \in BOOLEAN :
         IF ok THEN remoteWorking' = workHead /\ pc' = "pushMain"
                    /\ UNCHANGED outcome
         ELSE Finish("pushWorkingFailed") /\ UNCHANGED remoteWorking
    /\ UNCHANGED <<settings, env, workTree, index, workHead, remoteMain,
                   prodTracked, reports, changes, approved, base, runs, restarts,
                   syncVars, diffVars, reqVars, concVars, reportVars,
                   faultVars, dialogVars>>

\* lines 2136-2146: git push origin working:main --force
PushMain ==
    /\ pc = "pushMain"
    /\ phaseLog' = Enter("MergeToProduction")
    /\ publishLog' = Append(publishLog, <<"main", "force">>)
    /\ \E ok \in BOOLEAN :
         IF ok THEN remoteMain' = workHead /\ pc' = "resync" /\ UNCHANGED outcome
         ELSE Finish("promoteToMainFailed") /\ UNCHANGED remoteMain
    /\ UNCHANGED <<settings, env, workTree, index, workHead, remoteWorking,
                   prodTracked, reports, changes, approved, base, runs, restarts,
                   syncVars, diffVars, reqVars, concVars, reportVars,
                   faultVars, dialogVars>>

\* lines 2157-2188: checkout main, fetch origin main, reset --hard origin/main
Resync ==
    /\ pc = "resync"
    /\ phaseLog' = Enter("ResyncLocalProduction")
    /\ \E ok \in BOOLEAN :
         IF ok THEN prodTracked' = remoteMain /\ pc' = "report"
                    /\ UNCHANGED outcome
         ELSE Finish("updateProductionFailed") /\ UNCHANGED prodTracked
    /\ UNCHANGED <<settings, env, workTree, index, workHead, remoteWorking,
                   remoteMain, reports, changes, approved, publishLog, base,
                   runs, restarts, syncVars, diffVars, reqVars, concVars, reportVars,
                   faultVars, dialogVars>>

\* lines 2190-2196: generateReport and saveReport; saveReport's errors
\* ("Failed to save report: ...") reach the outer catch
EmitReport ==
    /\ pc = "report"
    /\ phaseLog' = Enter("EmitReport")
    /\ \E ok \in BOOLEAN :
         IF ok THEN reports' = reports + 1 /\ Finish("success")
         ELSE Finish("saveReportFailed") /\ UNCHANGED reports
    /\ UNCHANGED <<settings, env, workTree, index, workHead, remoteWorking,
                   remoteMain, prodTracked, changes, approved, publishLog,
                   base, runs, restarts, syncVars, diffVars, reqVars, concVars,
                   reportVars, faultVars, dialogVars>>

PromoNext ==
    \/ UserEdit \/ Invoke \/ Validate \/ CheckGit \/ FindGit
    \/ GitInstallChanges \/ CheckWorkRepo
    \/ CheckProdRepo \/ StageAll \/ Commit \/ Push \/ PushLease
    \/ ComputeDiff \/ Confirm \/ Cancel \/ PushForce \/ PushMain
    \/ Resync \/ EmitReport

PromoSpec == PromoInit /\ [][PromoNext]_vars

\* a run has ended with "Failed to update production vault": the working
\* branch was pushed to main (lines 2136-2146) and the reset of the
\* production vault failed (lines 2159-2185), so the production vault still
\* holds the former main. Settings and machine are what the user finds when
\* the command is invoked again.
RepairInit ==
    /\ SyncIdle
    /\ DiffIdle
    /\ ReqIdle
    /\ ConcIdle
    /\ ReportIdle
    /\ FaultIdle
    /\ DialogIdle
    /\ \E missing \in SettingFields \cup {"workExists", "prodExists", "none"},
          custom \in {"", FoundPath},
          gitOnPath \in BOOLEAN, altGit \in BOOLEAN, win32 \in BOOLEAN,
          workIsRepo \in BOOLEAN, prodIsRepo \in BOOLEAN :
         /\ missing # "none" =>
               custom = "" /\ gitOnPath /\ ~altGit /\ ~win32
               /\ workIsRepo /\ prodIsRepo
         /\ settings = [f \in SettingFields \cup {"customGitPath"} |->
                           IF f = "customGitPath" THEN custom
                           ELSE IF f = missing THEN "" ELSE "set"]
         /\ env = [gitOnPath |-> gitOnPath, altGit |-> altGit, win32 |-> win32,
                   workExists |-> missing # "workExists",
                   prodExists |-> missing # "prodExists",
                   workIsRepo |-> workIsRepo, prodIsRepo |-> prodIsRepo]
    /\ \E m \in Snapshots, w \in Snapshots :
         /\ m # w
         /\ prodTracked = m
         /\ remoteMain = w
         /\ remoteWorking = w
         /\ workHead = w
         /\ index = w
         /\ workTree = w
    /\ reports = 0
    /\ pc = "done"
    /\ outcome = "updateProductionFailed"
    \* the records of the ended run, which Invoke resets
    /\ changes = NoChanges
    /\ approved = FALSE
    /\ phaseLog = <<>>
    /\ publishLog = <<>>
    /\ base = NoBase
    \* the runs that follow are counted from here
    /\ runs = 0
    /\ restarts = 0

\* the command is invoked again after the failed update
RepairSpec == RepairInit /\ [][PromoNext]_vars

(***************************************************************************)
(* The command "Generate Change Report": GitHubTrackerPlugin.generateReport *)
(***************************************************************************)
\* GitService.isGitRepository: 'git rev-parse --is-inside-work-tree' prints
\* true; a command that cannot run is caught and gives false
isGitRepository(st, e, isRepo) ==
    Runnable(e, getGitCommand(st.customGitPath)) /\ isRepo

\* the command "Generate Change Report" is invoked
InvokeGenerateReport ==
    /\ pc \in {"idle", "done"}
    /\ runs < MaxRuns
    /\ runs' = runs + 1
    /\ restarts' = 0
    /\ pc' = "reportValidate"
    /\ outcome' = "none"
    /\ changes' = NoChanges
    /\ approved' = FALSE
    /\ phaseLog' = <<>>
    /\ publishLog' = <<>>
    /\ base' = RunState
    /\ UNCHANGED <<settings, env, workTree, index, workHead, remoteWorking,
                   remoteMain, prodTracked, reports, syncVars, diffVars,
                   reqVars, concVars, reportVars, faultVars, dialogVars>>

\* lines 2208-2213: validateConfiguration
ReportValidate ==
    /\ pc = "reportValidate"
    /\ IF validateConfiguration(settings, env) = "valid"
       THEN pc' = "reportCheckWorkRepo" /\ UNCHANGED outcome
       ELSE Finish("invalidConfiguration")
    /\ UNCHANGED <<settings, env, workTree, index, workHead, remoteWorking,
                   remoteMain, prodTracked, reports, changes, approved,
                   phaseLog, publishLog, base, runs, restarts, syncVars,
                   diffVars, reqVars, concVars, reportVars, faultVars,
                   dialogVars>>

\* lines 2223-2228: the working vault must be a repository
ReportCheckWorkRepo ==
    /\ pc = "reportCheckWorkRepo"
    /\ IF isGitRepository(settings, env, env.workIsRepo)
       THEN pc' = "reportCheckProdRepo" /\ UNCHANGED outcome
       ELSE Finish("notARepository")
    /\ UNCHANGED <<settings, env, workTree, index, workHead, remoteWorking,
                   remoteMain, prodTracked, reports, changes, approved,
                   phaseLog, publishLog, base, runs, restarts, syncVars,
                   diffVars, reqVars, concVars, reportVars, faultVars,
                   dialogVars>>

\* lines 2230-2235: the production vault must be a repository
ReportCheckProdRepo ==
    /\ pc = "reportCheckProdRepo"
    /\ IF isGitRepository(settings, env, env.prodIsRepo)
       THEN pc' = "reportAdd" /\ UNCHANGED outcome
       ELSE Finish("notARepository")
    /\ UNCHANGED <<settings, env, workTree, index, workHead, remoteWorking,
                   remoteMain, prodTracked, reports, changes, approved,
                   phaseLog, publishLog, base, runs, restarts, syncVars,
                   diffVars, reqVars, concVars, reportVars, faultVars,
                   dialogVars>>

\* line 2239: git add -A in the working vault
ReportStageAll ==
    /\ pc = "reportAdd"
    /\ \E ok \in BOOLEAN :
         IF ok THEN index' = workTree /\ pc' = "reportCommit"
                    /\ UNCHANGED outcome
         ELSE Finish("gitCommandFailed") /\ UNCHANGED index
    /\ UNCHANGED <<settings, env, workTree, workHead, remoteWorking,
                   remoteMain, prodTracked, reports, changes, approved,
                   phaseLog, publishLog, base, runs, restarts, syncVars,
                   diffVars, reqVars, concVars, reportVars, faultVars,
                   dialogVars>>

\* lines 2240-2248: the commit "Auto-commit for report"; "nothing to commit"
\* is let pass, another thrown failure reaches the outer catch
ReportCommit ==
    /\ pc = "reportCommit"
    /\ IF index = workHead
       THEN pc' = "reportPush" /\ UNCHANGED <<workHead, outcome>>
       ELSE \E result \in CommitResults :
              IF result = "committed"
              THEN workHead' = index /\ pc' = "reportPush"
                   /\ UNCHANGED outcome
              ELSE IF Throws(result)
              THEN Finish("createCommitFailed") /\ UNCHANGED workHead
              ELSE pc' = "reportPush" /\ UNCHANGED <<workHead, outcome>>
    /\ UNCHANGED <<settings, env, workTree, index, remoteWorking, remoteMain,
                   prodTracked, reports, changes, approved, phaseLog,
                   publishLog, base, runs, restarts, syncVars, diffVars,
                   reqVars, concVars, reportVars, faultVars, dialogVars>>

\* lines 2251-2253: git push origin working; a failure leads to the retry
ReportPush ==
    /\ pc = "reportPush"
    /\ publishLog' = Append(publishLog, <<"working", "plain">>)
    /\ \E ok \in BOOLEAN :
         IF ok THEN remoteWorking' = workHead /\ pc' = "reportDiff"
         ELSE pc' = "reportPushLease" /\ UNCHANGED remoteWorking
    /\ UNCHANGED <<settings, env, workTree, index, workHead, remoteMain,
                   prodTracked, reports, outcome, changes, approved,
                   phaseLog, base, runs, restarts, syncVars, diffVars,
                   reqVars, concVars, reportVars, faultVars, dialogVars>>

\* lines 2254-2256: git push origin working --force-with-lease
ReportPushLease ==
    /\ pc = "reportPushLease"
    /\ publishLog' = Append(publishLog, <<"working", "force-with-lease">>)
    /\ \E ok \in BOOLEAN :
         IF ok THEN remoteWorking' = workHead /\ pc' = "reportDiff"
                    /\ UNCHANGED outcome
         ELSE Finish("gitCommandFailed") /\ UNCHANGED remoteWorking
    /\ UNCHANGED <<settings, env, workTree, index, workHead, remoteMain,
                   prodTracked, reports, changes, approved, phaseLog, base,
                   runs, restarts, syncVars, diffVars, reqVars, concVars,
                   reportVars, faultVars, dialogVars>>

\* ReportDiff that also publishes the working branch as main, as the
\* promotion does after its diff
ReportDiffAndMerge ==
    /\ pc = "reportDiff"
    /\ remoteMain' = remoteWorking
    /\ \E ok \in BOOLEAN :
         LET d == diff(env, remoteMain, remoteWorking, ok)
         IN  IF d.thrown THEN Finish("getDiffFailed") /\ UNCHANGED changes
             ELSE /\ changes' = parseDiffOutput(d.stdout)
                  /\ pc' = "reportSave"
                  /\ UNCHANGED outcome
    /\ UNCHANGED <<settings, env, workTree, index, workHead, remoteWorking,
                   prodTracked, reports, approved, phaseLog, publishLog,
                   base, runs, restarts, syncVars, diffVars, reqVars,
                   concVars, reportVars, faultVars, dialogVars>>

\* lines 2258-2260: gitService.diff; the report is made of its output
\* whether it is empty or not
ReportDiff ==
    /\ pc = "reportDiff"
    /\ \E ok \in BOOLEAN :
         LET d == diff(env, remoteMain, remoteWorking, ok)
         IN  IF d.thrown THEN Finish("getDiffFailed") /\ UNCHANGED changes
             ELSE /\ changes' = parseDiffOutput(d.stdout)
                  /\ pc' = "reportSave"
                  /\ UNCHANGED outcome
    /\ UNCHANGED <<settings, env, workTree, index, workHead, remoteWorking,
                   remoteMain, prodTracked, reports, approved, phaseLog,
                   publishLog, base, runs, restarts, syncVars, diffVars,
                   reqVars, concVars, reportVars, faultVars, dialogVars>>

\* lines 2271-2276: generateReport and saveReport, which creates one file
\* under "Update Logs" through the vault API; its errors reach the outer
\* catch
ReportSave ==
    /\ pc = "reportSave"
    /\ \E ok \in BOOLEAN :
         IF ok THEN reports' = reports + 1 /\ Finish("success")
         ELSE Finish("saveReportFailed") /\ UNCHANGED reports
    /\ UNCHANGED <<settings, env, workTree, index, workHead, remoteWorking,
                   remoteMain, prodTracked, changes, approved, phaseLog,
                   publishLog, base, runs, restarts, syncVars, diffVars,
                   reqVars, concVars, reportVars, faultVars, dialogVars>>

CompareNext ==
    \/ UserEdit \/ InvokeGenerateReport \/ ReportValidate
    \/ ReportCheckWorkRepo \/ ReportCheckProdRepo \/ ReportStageAll
    \/ ReportCommit \/ ReportPush \/ ReportPushLease \/ ReportDiff
    \/ ReportSave

CompareSpec == PromoInit /\ [][CompareNext]_vars

(***************************************************************************)
(* The diff classifier: ReportGenerator.parseDiff applied to diff texts    *)
(***************************************************************************)
OldMd == <<"old.md">>
NewMd == <<"notes", "new.md">>
OtherMd == <<"other.md">>

\* the lines a diff text of the rename model is made of: the header lines of
\* a rename, and hunk lines whose text repeats the words of the markers
RenameLines ==
    {Header(OldMd, NewMd), Sim(100), Sim(90), RenameFrom(OldMd),
     RenameTo(NewMd), NewFileMode,
     Body("similarity index", NoPath, 50), Body("rename from", OtherMd, 0)}

\* a new note whose text speaks of renaming, its lines under the header of
\* an added file; "a/dev/null b/<path>" is the header of the null "from" path
NewFileLines ==
    {Header(NewMd, NewMd), Header(DevNull, NewMd), NewFileMode,
     DeletedFileMode, Minus(SlashDevNull),
     Body("Rename From", OtherMd, 0), Body("rename to", OtherMd, 0)}

ObsidianOld == <<".obsidian", "old.md">>
GitConfig == <<".git", "config">>
GitIgnore == <<".gitignore">>
UpdateLog == <<"Update Logs", "report.md">>

\* sections of files at excluded locations, and the rename of a file out of
\* the configuration directory
ExcludedLines ==
    {Header(GitConfig, GitConfig), Header(GitIgnore, GitIgnore),
     Header(UpdateLog, UpdateLog), Header(ObsidianOld, NewMd), Sim(100),
     RenameFrom(ObsidianOld), RenameTo(NewMd)}

DocsBMd == <<"docs b", "new.md">>
DataMd == <<"data", "new.md">>

\* headers of files whose path holds the text " b/" or "a/", and a header
\* line "diff --git" that names no "a/<path> b/<path>" pair
SeparatorLines ==
    {Header(DocsBMd, DocsBMd), Header(DataMd, DataMd), Header(NoPath, NoPath),
     NewFileMode, Body("text", NoPath, 1)}

DiffAlphabets == {RenameLines, NewFileLines, ExcludedLines, SeparatorLines}

DiffInit ==
    /\ SyncIdle
    /\ PromoIdle
    /\ ReqIdle
    /\ ConcIdle
    /\ ReportIdle
    /\ FaultIdle
    /\ DialogIdle
    /\ diffText = <<>>
    /\ parsed = NotParsed
    /\ diffPc = "build"
    /\ alphabet \in DiffAlphabets

\* git diff prints one more line
AppendLine ==
    /\ diffPc = "build"
    /\ Len(diffText) < MaxLines
    /\ \E l \in alphabet : diffText' = Append(diffText, l)
    /\ UNCHANGED <<parsed, diffPc, alphabet, syncVars, promoVars, reqVars, concVars,
                   reportVars, faultVars, dialogVars>>

\* ReportGenerator.parseDiff(diffOutput)
ParseDiff ==
    /\ diffPc = "build"
    /\ parsed' = parseDiff(diffText)
    /\ diffPc' = "parsed"
    /\ UNCHANGED <<diffText, alphabet, syncVars, promoVars, reqVars, concVars,
                   reportVars, faultVars, dialogVars>>

DiffNext == AppendLine \/ ParseDiff

DiffSpec == DiffInit /\ [][DiffNext]_vars

(***************************************************************************)
(* The requirement check: GitHubTrackerPlugin.checkSystemRequirements and  *)
(* GitHubTrackerSettingTab.performGitSetup                                 *)
(***************************************************************************)
Requirement(name, status, message) ==
    [name |-> name, status |-> status, message |-> message]

\* GitService.checkGitConfigured: the global configuration is read with
\* getGitCommand() and its errors are ignored; the plugin settings fill
\* what it left empty.  The name and the email are set together.
checkGitConfigured(st, e, id) ==
    (checkGitInstalled(st, e) /\ id.globalConfig) \/ id.pluginSettings

\* where the userName and userEmail checkGitConfigured returns come from
IdentityProvider(st, e, id) ==
    IF checkGitInstalled(st, e) /\ id.globalConfig THEN "Git global config"
    ELSE IF id.pluginSettings THEN "plugin settings"
    ELSE "none"

\* line 1727: the source the message of the passed check names
MessageSource(id) ==
    IF id.pluginSettings THEN "from plugin settings"
    ELSE "from Git global config"

\* the vault-path entries: pass when the path is set and exists
PathRequirement(name, path, exists) ==
    IF path # "" /\ exists THEN Requirement(name, "pass", "path")
    ELSE IF path # "" THEN Requirement(name, "fail", "Path does not exist")
    ELSE Requirement(name, "fail", "Not configured")

\* checkSystemRequirements: the requirements array, in the order pushed
checkSystemRequirements(st, e, id) ==
    LET installed0 == checkGitInstalled(st, e)
        found == ~installed0 /\ e.win32 /\ findGitOnWindows(e) # ""
        gitInstalled == installed0 \/ found
        discovery ==
            IF found
            THEN <<Requirement("Git Installation", "warning", "Git found at")>>
            ELSE <<>>
        installation ==
            IF ~gitInstalled
            THEN <<Requirement("Git Installation", "fail",
                               "Git is not installed")>>
            ELSE IF st.customGitPath = ""
            THEN <<Requirement("Git Installation", "pass",
                               "Git is installed")>>
            ELSE <<Requirement("Git Installation", "pass",
                               "Using custom Git path")>>
        configuration ==
            IF gitInstalled
            THEN IF checkGitConfigured(st, e, id)
                 THEN <<Requirement("Git Configuration", "pass",
                                    MessageSource(id))>>
                 ELSE <<Requirement("Git Configuration", "fail",
                                    "not configured")>>
            ELSE <<>>
        token ==
            IF st.githubToken # ""
            THEN Requirement("GitHub Token", "pass", "Configured")
            ELSE Requirement("GitHub Token", "fail", "Not configured")
        repository ==
            IF st.githubRepoOwner # "" /\ st.githubRepoName # ""
            THEN Requirement("GitHub Repository", "pass", "owner/name")
            ELSE Requirement("GitHub Repository", "fail",
                             "Owner or name not configured")
    IN  discovery \o installation \o configuration \o
        <<PathRequirement("Working Vault Path", st.workingVaultPath,
                          e.workExists),
          PathRequirement("Production Vault Path", st.productionVaultPath,
                          e.prodExists),
          token, repository>>

\* the value the promise of checkSystemRequirements resolves to
allPassed(reqs) == \A i \in 1..Len(reqs) : reqs[i].status = "pass"

\* GitService.configureGit that ignores its third argument and writes the
\* local configuration
configureGitLocalOnly(writes, cwd, global) == writes \cup {<<"--local", cwd>>}

\* GitService.configureGit(userName, userEmail, global) run in cwd, when its
\* two commands succeed
configureGit(writes, cwd, global) ==
    writes \cup {<<IF global THEN "--global" ELSE "--local", cwd>>}

\* a Notice or a console line; hasToken: its text contains the token
Shown(sink, text, hasToken) ==
    [sink |-> sink, text |-> text, hasToken |-> hasToken]

\* lines 2811-2814: the outer catch of performGitSetup shows the message of
\* the error in a Notice and writes the error to the console.  The message
\* is "Git command failed: <stderr>" (lines 84-110), the stderr of git as
\* it is.  Whether git quotes the url of the remote in the message of a
\* failed push depends on the git installed ("error: failed to push some
\* refs to '<url>'"); "git remote add" and "git commit" quote no url.  The
\* message contains the token when git quotes a url that embeds it
SetupFailed(text, quotesUrl, tokenInUrl) ==
    {Shown("Notice", text, quotesUrl /\ tokenInUrl),
     Shown("console", text, quotesUrl /\ tokenInUrl)}

ReqInit ==
    /\ SyncIdle
    /\ DiffIdle
    /\ ConcIdle
    /\ ReportIdle
    /\ FaultIdle
    /\ DialogIdle
    /\ PromoRunIdle
    /\ settings \in [SettingFields \cup {"customGitPath"} -> {"", "set"}]
    /\ settings.customGitPath = ""
    /\ \E gitOnPath \in BOOLEAN, altGit \in BOOLEAN, win32 \in BOOLEAN,
          workExists \in BOOLEAN, prodExists \in BOOLEAN :
         env = [gitOnPath |-> gitOnPath, altGit |-> altGit, win32 |-> win32,
                workExists |-> workExists, prodExists |-> prodExists,
                workIsRepo |-> FALSE, prodIsRepo |-> FALSE]
    /\ identity \in [{"globalConfig", "pluginSettings"} -> BOOLEAN]
    /\ requirements = <<>>
    /\ setupPc = "idle"
    /\ useTokenInUrl \in BOOLEAN
    /\ originHasToken = FALSE
    /\ shown = {}
    /\ configWrites = {}
    /\ identityStep = NoIdentityStep

\* lines 1665-1672 and 2529-2536: the command and the button "Check
\* Requirements" show the list and do nothing else
CheckRequirements ==
    /\ setupPc = "idle"
    /\ requirements' = checkSystemRequirements(settings, env, identity)
    /\ setupPc' = "checked"
    /\ UNCHANGED <<identity, useTokenInUrl, originHasToken, shown,
                   configWrites, identityStep, syncVars, promoVars, diffVars,
                   concVars, reportVars, faultVars, dialogVars>>

\* lines 2574-2584: performGitSetup runs the check and returns unless it
\* resolved to true
PerformGitSetup ==
    /\ setupPc \in {"idle", "checked"}
    /\ LET reqs == checkSystemRequirements(settings, env, identity)
       IN  /\ requirements' = reqs
           /\ setupPc' = IF allPassed(reqs) THEN "checkGit" ELSE "blocked"
    /\ UNCHANGED <<identity, useTokenInUrl, originHasToken, shown,
                   configWrites, identityStep, syncVars, promoVars, diffVars,
                   concVars, reportVars, faultVars, dialogVars>>

\* lines 2586-2614: performGitSetup checks git again, stores a discovered
\* path in the settings, or shows the installation modal
SetupCheckGit ==
    /\ setupPc = "checkGit"
    /\ IF checkGitInstalled(settings, env)
       THEN setupPc' = "configure" /\ UNCHANGED settings
       ELSE IF env.win32 /\ findGitOnWindows(env) # ""
       THEN /\ settings' =
                  [settings EXCEPT !.customGitPath = findGitOnWindows(env)]
            /\ setupPc' = "configure"
       ELSE setupPc' = "gitMissing" /\ UNCHANGED settings
    /\ UNCHANGED <<identity, requirements, useTokenInUrl, originHasToken,
                   shown, configWrites, identityStep, env, workTree, index,
                   workHead, remoteWorking, remoteMain, prodTracked, reports,
                   pc, outcome, changes, approved, phaseLog, publishLog, base,
                   runs, restarts, syncVars, diffVars, concVars, reportVars,
                   faultVars, dialogVars>>

\* lines 2616-2656: the identity step.  When checkGitConfigured finds no
\* identity the modal asks for a name and an email, stores them in the
\* settings, saves the settings and, when that succeeded, runs
\* configureGit(name, email, true), whose failure it ignores
ConfigureIdentity ==
    /\ setupPc = "configure"
    /\ IF checkGitConfigured(settings, env, identity)
       THEN /\ setupPc' = "remote"
            /\ UNCHANGED <<identity, configWrites, identityStep>>
       ELSE \E saved \in BOOLEAN, globalOk \in BOOLEAN :
              /\ identityStep' = [asked |-> TRUE, saved |-> saved,
                                  globalOk |-> saved /\ globalOk]
              /\ configWrites' =
                   IF saved /\ globalOk
                   THEN configureGit(configWrites, "production", TRUE)
                   ELSE configWrites
              /\ identity' =
                   [pluginSettings |-> TRUE,
                    globalConfig |->
                        identity.globalConfig \/ (saved /\ globalOk)]
              /\ setupPc' = "remote"
    /\ UNCHANGED <<requirements, useTokenInUrl, originHasToken, shown,
                   syncVars, promoVars, diffVars, concVars, reportVars,
                   faultVars, dialogVars>>

\* the user sets or unsets user.name and user.email in the global git
\* configuration, outside the plugin, while performGitSetup is suspended
ExternalGlobalConfig ==
    /\ setupPc \in {"checkGit", "configure"}
    /\ identity' = [identity EXCEPT !.globalConfig = ~@]
    /\ UNCHANGED <<requirements, setupPc, useTokenInUrl, originHasToken,
                   shown, configWrites, identityStep, syncVars, promoVars,
                   diffVars, concVars, reportVars, faultVars, dialogVars>>

\* lines 2658-2712, steps 1 and 2: the remote url, with the token when
\* useTokenInUrl; git init / remote add (or set-url) in the working vault;
\* the local identity; the initial commit
SetupWorkingVault ==
    /\ setupPc = "remote"
    /\ LET tokenInUrl == useTokenInUrl /\ settings.githubToken # ""
       IN  \E remoteOk \in BOOLEAN, commitOk \in BOOLEAN :
             IF ~remoteOk
             THEN /\ setupPc' = "failed"
                  /\ shown' = shown \cup
                        SetupFailed("Git command failed", FALSE, tokenInUrl)
                  /\ UNCHANGED <<originHasToken, configWrites>>
             ELSE /\ originHasToken' = tokenInUrl
                  /\ configWrites' =
                        IF identity.pluginSettings
                        THEN configureGit(configWrites, "working", FALSE)
                        ELSE configWrites
                  /\ IF commitOk
                     THEN setupPc' = "pushWorking" /\ UNCHANGED shown
                     ELSE /\ setupPc' = "failed"
                          /\ shown' = shown \cup
                                SetupFailed("Git command failed", FALSE,
                                            tokenInUrl)
    /\ UNCHANGED <<identity, requirements, useTokenInUrl, identityStep,
                   syncVars, promoVars, diffVars, concVars, reportVars,
                   faultVars, dialogVars>>

\* lines 2714-2737, step 3: "git push -u origin working --force".  An
\* authentication error opens the authentication modal when the token is not
\* in the url; any other failure is thrown with its message to the outer
\* catch
SetupPushWorking ==
    /\ setupPc = "pushWorking"
    /\ \E ok \in BOOLEAN, isAuthError \in BOOLEAN, quotesUrl \in BOOLEAN :
         IF ok THEN setupPc' = "production" /\ UNCHANGED shown
         ELSE IF isAuthError /\ ~useTokenInUrl
         THEN setupPc' = "authModal" /\ UNCHANGED shown
         ELSE /\ setupPc' = "failed"
              /\ shown' = shown \cup
                    SetupFailed("Failed to push working branch to GitHub",
                                quotesUrl, originHasToken)
    /\ UNCHANGED <<identity, requirements, useTokenInUrl, originHasToken,
                   configWrites, identityStep, syncVars, promoVars, diffVars,
                   concVars, reportVars, faultVars, dialogVars>>

\* lines 2739-2785, steps 4 and 5: the production vault gets the same remote
\* url; main is created from origin/working or, when the fetch fails, from
\* the production content, committed under the local identity
SetupProductionVault ==
    /\ setupPc = "production"
    /\ \E remoteOk \in BOOLEAN, fetchOk \in BOOLEAN :
         IF ~remoteOk
         THEN /\ setupPc' = "failed"
              /\ shown' = shown \cup
                    SetupFailed("Git command failed", FALSE, originHasToken)
              /\ UNCHANGED configWrites
         ELSE /\ setupPc' = "pushMain"
              /\ configWrites' =
                    IF ~fetchOk /\ identity.pluginSettings
                    THEN configureGit(configWrites, "production", FALSE)
                    ELSE configWrites
              /\ UNCHANGED shown
    /\ UNCHANGED <<identity, requirements, useTokenInUrl, originHasToken,
                   identityStep, syncVars, promoVars, diffVars, concVars,
                   reportVars, faultVars, dialogVars>>

\* lines 2787-2809, step 6: "git push -u origin main --force", handled as
\* the push of step 3
SetupPushMain ==
    /\ setupPc = "pushMain"
    /\ \E ok \in BOOLEAN, isAuthError \in BOOLEAN, quotesUrl \in BOOLEAN :
         IF ok THEN setupPc' = "complete" /\ UNCHANGED shown
         ELSE IF isAuthError /\ ~useTokenInUrl
         THEN setupPc' = "authModal" /\ UNCHANGED shown
         ELSE /\ setupPc' = "failed"
              /\ shown' = shown \cup
                    SetupFailed("Failed to push main branch to GitHub",
                                quotesUrl, originHasToken)
    /\ UNCHANGED <<identity, requirements, useTokenInUrl, originHasToken,
                   configWrites, identityStep, syncVars, promoVars, diffVars,
                   concVars, reportVars, faultVars, dialogVars>>

\* the user types the path of a git executable into the settings tab
SetCustomGitPath ==
    /\ setupPc = "idle"
    /\ settings.customGitPath = ""
    /\ settings' = [settings EXCEPT !.customGitPath = FoundPath]
    /\ UNCHANGED <<reqVars, env, workTree, index, workHead,
                   remoteWorking, remoteMain, prodTracked, reports, pc,
                   outcome, changes, approved, phaseLog, publishLog, base,
                   runs, restarts, syncVars, diffVars, concVars, reportVars,
                   faultVars, dialogVars>>

ReqNext ==
    \/ CheckRequirements
    \/ PerformGitSetup
    \/ SetupCheckGit
    \/ ConfigureIdentity
    \/ ExternalGlobalConfig
    \/ SetupWorkingVault
    \/ SetupPushWorking
    \/ SetupProductionVault
    \/ SetupPushMain
    \/ SetCustomGitPath

ReqSpec == ReqInit /\ [][ReqNext]_vars

(***************************************************************************)
(* Overlapping invocations of the command "Promote Changes"                *)
(***************************************************************************)
\* the awaits of promoteChanges, in order: at each the call is suspended
\* and the event loop can run another callback
PromoteAwaits ==
    <<"validateConfiguration", "checkGitInstalled", "isWorkingRepo",
      "isProdRepo", "add", "commit", "push", "diff", "confirm", "pushForce",
      "pushMain", "resync", "saveReport">>

Returned == Len(PromoteAwaits) + 1

\* the invocations that are between their first await and their return
ActiveCalls == {c \in DOMAIN calls : calls[c] \in 1..Len(PromoteAwaits)}

ConcInit ==
    /\ SyncIdle
    /\ PromoIdle
    /\ DiffIdle
    /\ ReqIdle
    /\ ReportIdle
    /\ FaultIdle
    /\ DialogIdle
    /\ calls = [c \in 1..MaxCalls |-> 0]
    /\ lastCall = 0

\* lines 1637-1645: the callback of the command calls promoteChanges; it
\* tests nothing before it does
InvokeCommand ==
    /\ \E c \in DOMAIN calls :
         /\ calls[c] = 0
         /\ calls' = [calls EXCEPT ![c] = 1]
         /\ lastCall' = c
    /\ UNCHANGED <<syncVars, promoVars, diffVars, reqVars, reportVars, faultVars,
                   dialogVars>>

\* the awaited promise of a suspended call resolves and the call runs to
\* its next await
ResumeCall ==
    /\ \E c \in ActiveCalls :
         /\ calls' = [calls EXCEPT ![c] = calls[c] + 1]
         /\ lastCall' = c
    /\ UNCHANGED <<syncVars, promoVars, diffVars, reqVars, reportVars, faultVars,
                   dialogVars>>

\* a suspended call resumes into a return: a failed check or command shows
\* its Notice, or the user cancels the confirmation
ReturnEarly ==
    /\ \E c \in ActiveCalls :
         /\ calls' = [calls EXCEPT ![c] = Returned]
         /\ lastCall' = c
    /\ UNCHANGED <<syncVars, promoVars, diffVars, reqVars, reportVars, faultVars,
                   dialogVars>>

ConcNext == InvokeCommand \/ ResumeCall \/ ReturnEarly

ConcSpec == ConcInit /\ [][ConcNext]_vars

(***************************************************************************)
(* Report generation: ReportGenerator.generateReport                       *)
(***************************************************************************)
\* new Date().toLocaleString(...): the clock to the second
Timestamp(t) == t \div 2

\* prInfo.url.split('/pull/')[0]: a url is the sequence of its parts
\* around "/pull/"
RepoUrlOf(url) == url[1]

\* name.replace(/\.[^/.]+$/, ''): the name without its extension
WithoutExt(name) ==
    CASE name = "new.md" -> "new"
      [] name = "old.md" -> "old"
      [] name = "other.md" -> "other"
      [] OTHER -> name

\* path.replace(/\.[^/.]+$/, ''): the extension is cut off the last segment
PathWithoutExt(p) ==
    IF p = NoPath THEN NoPath
    ELSE SubSeq(p, 1, Len(p) - 1) \o <<WithoutExt(p[Len(p)])>>

\* the callout type formatDiffSection chooses for a status
CalloutType(status) ==
    CASE status = "deleted" -> "failure"
      [] status = "modified" -> "note"
      [] status = "added" -> "abstract"
      [] OTHER -> "info"

NoSection == <<>>

\* ReportGenerator.formatDiffSection: the callout of one file, its lines in
\* order (title, folder, path, "Moved from" for a moved file with an old
\* path, the diff block); no text when the file has no changes
formatDiffSection(file) ==
    IF file.changes = <<>> THEN NoSection
    ELSE LET lastSlash == Len(file.path) - 1
             folderPath == IF lastSlash > 0
                           THEN SubSeq(file.path, 1, lastSlash)
                           ELSE <<"(root)">>
         IN  <<[k |-> "title", v |-> <<CalloutType(file.status),
                                       WithoutExt(file.path[Len(file.path)])>>],
               [k |-> "folder", v |-> folderPath],
               [k |-> "path", v |-> PathWithoutExt(file.path)]>>
             \o (IF file.status = "moved" /\ file.oldPath # NoPath
                 THEN <<[k |-> "movedFrom", v |-> PathWithoutExt(file.oldPath)]>>
                 ELSE <<>>)
             \o <<[k |-> "diff", v |-> file.changes]>>

\* the key of the folder that holds root-level files
RootFolder == <<"(root)">>

\* the folders a path lies in, outermost first: the chain of Map entries
\* addToTree creates or follows
FoldersOf(path) == {SubSeq(path, 1, n) : n \in 1..(Len(path) - 1)}

\* addToTree: the tree is the nested Map flattened, a folder being named by
\* its keys from the top; a file goes to the folder of its segments, a file
\* without folders to the entry "(root)" of the top Map
addToTree(tree, path, status) ==
    LET folders == SubSeq(path, 1, Len(path) - 1)
        node == IF folders = <<>> THEN RootFolder ELSE folders
        nodes == DOMAIN tree \cup FoldersOf(path) \cup {node}
        file == [name |-> path[Len(path)], path |-> path, status |-> status]
    IN  [n \in nodes |->
           LET before == IF n \in DOMAIN tree THEN tree[n] ELSE <<>>
           IN  IF n = node THEN Append(before, file) ELSE before]

RECURSIVE AddAllToTree(_, _, _)
\* for (const file of list) addToTree(file, status)
AddAllToTree(tree, list, status) ==
    IF list = <<>> THEN tree
    ELSE AddAllToTree(addToTree(tree, Head(list), status), Tail(list), status)

\* ReportGenerator.buildFolderTree
buildFolderTree(filesByStatus) ==
    AddAllToTree(
      AddAllToTree(
        AddAllToTree(
          AddAllToTree(<<>>, filesByStatus.added, "added"),
          filesByStatus.modified, "modified"),
        filesByStatus.deleted, "deleted"),
      filesByStatus.moved, "moved")

\* the text generateReport returns at clock reading t: the title with the
\* timestamp, the summary, the section of every file, the repository link
ReportText(diffOutput, prInfo, t) ==
    LET diffResult == parseDiff(diffOutput)
    IN  [title |-> Timestamp(t),
         summary |-> <<diffResult.stats,
                       buildFolderTree(diffResult.filesByStatus)>>,
         changes |-> [i \in 1..Len(diffResult.files) |->
                        formatDiffSection(diffResult.files[i])],
         repository |-> RepoUrlOf(prInfo.url)]

DeepTxt == <<"a", "b", "c.txt">>
RootDirMd == <<"(root)", "new.md">>

\* the diff texts handed to generateReport: none, a moved file, a new file,
\* a file renamed and edited, files at three depths one of which lies in a
\* folder named "(root)"
SampleDiffs ==
    {<<>>,
     <<Header(OldMd, NewMd), Sim(100), RenameFrom(OldMd), RenameTo(NewMd)>>,
     <<Header(NewMd, NewMd), NewFileMode, Minus(SlashDevNull)>>,
     <<Header(OldMd, NewMd), Sim(90), RenameFrom(OldMd), RenameTo(NewMd),
       Hunk, Body("text", NoPath, 1)>>,
     <<Header(DeepTxt, DeepTxt), Header(OldMd, OldMd),
       Header(RootDirMd, RootDirMd), NewFileMode>>}

SamplePrInfos ==
    {[url |-> <<"https://github.com/owner/repo", "1">>],
     [url |-> <<"https://github.com/owner/repo">>]}

ReportInit ==
    /\ SyncIdle
    /\ PromoIdle
    /\ DiffIdle
    /\ ReqIdle
    /\ ConcIdle
    /\ FaultIdle
    /\ DialogIdle
    /\ clock = 0
    /\ generated = <<>>

\* time passes
Tick ==
    /\ clock < MaxClock
    /\ clock' = clock + 1
    /\ UNCHANGED <<generated, syncVars, promoVars, diffVars, reqVars,
                   concVars, faultVars, dialogVars>>

\* lines 1081-1115: generateReport(diffOutput, prInfo) reads the clock
GenerateReport ==
    /\ Len(generated) < MaxReports
    /\ \E diffOutput \in SampleDiffs, prInfo \in SamplePrInfos :
         generated' = Append(generated,
                             [diffOutput |-> diffOutput, prInfo |-> prInfo,
                              text |-> ReportText(diffOutput, prInfo, clock)])
    /\ UNCHANGED <<clock, syncVars, promoVars, diffVars, reqVars, concVars,
                   faultVars, dialogVars>>

ReportNext == Tick \/ GenerateReport

ReportSpec == ReportInit /\ [][ReportNext]_vars

(***************************************************************************)
(* Filesystem errors of sync: the catch blocks an error passes on its way  *)
(* out of syncDirectories                                                  *)
(***************************************************************************)
\* error.code of the errors the fs functions throw
ErrorCodes == {"EACCES", "ENOSPC", "ENOENT", "EISDIR", "ENOTDIR", "EEXIST"}

\* the catch of copyDirectoryRecursive, lines 568-579: a new Error, which
\* has no code, whose message is chosen by the code of the caught error
CopyCatch(error) ==
    [origin |-> error.origin,
     code |-> "none",
     message |->
        CASE error.code = "EACCES" ->
               <<"Permission denied while copying files">> \o error.message
          [] error.code = "ENOSPC" ->
               <<"Insufficient disk space to copy files">>
          [] error.code = "ENOENT" ->
               <<"File or directory not found">> \o error.message
          [] OTHER -> <<"File system error">> \o error.message]

\* the catch of removeDeletedFiles, lines 508-510
PruneCatch(error) ==
    [origin |-> error.origin,
     code |-> "none",
     message |-> <<"Failed to remove deleted files">> \o error.message]

\* the catch of syncDirectories, lines 463-465
SyncCatch(error) ==
    [origin |-> error.origin,
     code |-> "none",
     message |-> <<"Failed to sync directories">> \o error.message]

\* the try blocks around a call at the given depth of the recursion f, inside
\* syncDirectories
FramesAt(f, depth) == [i \in 1..(depth + 1) |-> f] \o <<"syncDirectories">>

FaultInit ==
    /\ SyncIdle
    /\ PromoIdle
    /\ DiffIdle
    /\ ReqIdle
    /\ ConcIdle
    /\ ReportIdle
    /\ FaultIdle
    /\ DialogIdle

\* readdirSync, statSync, mkdirSync or copyFileSync throws in the call of
\* copyDirectoryRecursive for a directory at some depth
ThrowInCopy ==
    /\ thrown = NoError
    /\ \E code \in ErrorCodes, depth \in 0..MaxDepth :
         /\ thrown' = [origin |-> code, code |-> code, message |-> <<code>>]
         /\ frames' = FramesAt("copyDirectoryRecursive", depth)
    /\ UNCHANGED <<syncVars, promoVars, diffVars, reqVars, concVars,
                   reportVars, dialogVars>>

\* readdirSync, statSync, unlinkSync or rmdirSync throws in the call of
\* removeDeletedFiles for a directory at some depth
ThrowInPrune ==
    /\ thrown = NoError
    /\ \E code \in ErrorCodes, depth \in 0..MaxDepth :
         /\ thrown' = [origin |-> code, code |-> code, message |-> <<code>>]
         /\ frames' = FramesAt("removeDeletedFiles", depth)
    /\ UNCHANGED <<syncVars, promoVars, diffVars, reqVars, concVars,
                   reportVars, dialogVars>>

\* the error reaches the catch of a call of copyDirectoryRecursive
CatchInCopy ==
    /\ frames # <<>>
    /\ Head(frames) = "copyDirectoryRecursive"
    /\ thrown' = CopyCatch(thrown)
    /\ frames' = Tail(frames)
    /\ UNCHANGED <<syncVars, promoVars, diffVars, reqVars, concVars,
                   reportVars, dialogVars>>

\* the error reaches the catch of a call of removeDeletedFiles
CatchInPrune ==
    /\ frames # <<>>
    /\ Head(frames) = "removeDeletedFiles"
    /\ thrown' = PruneCatch(thrown)
    /\ frames' = Tail(frames)
    /\ UNCHANGED <<syncVars, promoVars, diffVars, reqVars, concVars,
                   reportVars, dialogVars>>

\* the error reaches the catch of syncDirectories and leaves it
CatchInSync ==
    /\ frames # <<>>
    /\ Head(frames) = "syncDirectories"
    /\ thrown' = SyncCatch(thrown)
    /\ frames' = Tail(frames)
    /\ UNCHANGED <<syncVars, promoVars, diffVars, reqVars, concVars,
                   reportVars, dialogVars>>

FaultNext ==
    ThrowInCopy \/ ThrowInPrune \/ CatchInCopy \/ CatchInPrune \/ CatchInSync

FaultSpec == FaultInit /\ [][FaultNext]_vars

(***************************************************************************)
(* Dialogs: the operations that await a promise which a dialog resolves    *)
(***************************************************************************)
DialogInit ==
    /\ SyncIdle
    /\ PromoIdle
    /\ DiffIdle
    /\ ReqIdle
    /\ ConcIdle
    /\ ReportIdle
    /\ FaultIdle
    /\ DialogIdle

\* promoteChanges, lines 2108-2116: new Promise((resolve) => new
\* ConfirmPromotionModal(app, summary, () => resolve(true),
\* () => resolve(false)).open())
OpenConfirmPromotion ==
    /\ awaiter = "none"
    /\ Len(ended) < MaxDialogs
    /\ awaiter' = "promoteChanges"
    /\ modal' = "open"
    /\ promise' = "pending"
    /\ inputs' = NoInputs
    /\ UNCHANGED <<ended, syncVars, promoVars, diffVars, reqVars, concVars,
                   reportVars, faultVars>>

\* performGitSetup, lines 2618-2646: the identity is not configured, so
\* GitConfigModal opens with what is known of the name and the email
OpenGitConfig ==
    /\ awaiter = "none"
    /\ Len(ended) < MaxDialogs
    /\ awaiter' = "performGitSetup"
    /\ modal' = "open"
    /\ promise' = "pending"
    /\ \E name \in {"", "set"}, email \in {"", "set"} :
         /\ ~(name = "set" /\ email = "set")
         /\ inputs' = [NoInputs EXCEPT !.name = name, !.email = email]
    /\ UNCHANGED <<ended, syncVars, promoVars, diffVars, reqVars, concVars,
                   reportVars, faultVars>>

\* checkSystemRequirements, lines 1812-1818: the results are shown in
\* SystemRequirementsModal
OpenSystemRequirements ==
    /\ awaiter = "none"
    /\ Len(ended) < MaxDialogs
    /\ awaiter' = "checkSystemRequirements"
    /\ modal' = "open"
    /\ promise' = "pending"
    /\ \E passed \in BOOLEAN :
         inputs' = [NoInputs EXCEPT !.allPassed = passed]
    /\ UNCHANGED <<ended, syncVars, promoVars, diffVars, reqVars, concVars,
                   reportVars, faultVars>>

\* the user fills in a text field of GitConfigModal
TypeIdentity ==
    /\ modal = "open"
    /\ awaiter = "performGitSetup"
    /\ \/ inputs.name = "" /\ inputs' = [inputs EXCEPT !.name = "set"]
       \/ inputs.email = "" /\ inputs' = [inputs EXCEPT !.email = "set"]
    /\ UNCHANGED <<awaiter, modal, promise, ended, syncVars, promoVars,
                   diffVars, reqVars, concVars, reportVars, faultVars>>

\* ConfirmPromotionModal, lines 1597-1603: this.close(); this.onConfirm()
ClickConfirm ==
    /\ modal = "open"
    /\ awaiter = "promoteChanges"
    /\ modal' = "closed"
    /\ promise' = "true"
    /\ UNCHANGED <<awaiter, inputs, ended, syncVars, promoVars, diffVars,
                   reqVars, concVars, reportVars, faultVars>>

\* ConfirmPromotionModal, lines 1590-1594: this.close(); this.onCancel()
ClickCancel ==
    /\ modal = "open"
    /\ awaiter = "promoteChanges"
    /\ modal' = "closed"
    /\ promise' = "false"
    /\ UNCHANGED <<awaiter, inputs, ended, syncVars, promoVars, diffVars,
                   reqVars, concVars, reportVars, faultVars>>

\* GitConfigModal, lines 1417-1429, with a name and an email: this.close();
\* this.onConfirm(name, email), whose two branches end in resolve()
ClickSave ==
    /\ modal = "open"
    /\ awaiter = "performGitSetup"
    /\ inputs.name # "" /\ inputs.email # ""
    /\ modal' = "closed"
    /\ promise' = "void"
    /\ UNCHANGED <<awaiter, inputs, ended, syncVars, promoVars, diffVars,
                   reqVars, concVars, reportVars, faultVars>>

\* GitConfigModal, lines 1421-1424: a field is empty, a Notice asks for
\* both and the dialog stays open
ClickSaveEmpty ==
    /\ modal = "open"
    /\ awaiter = "performGitSetup"
    /\ inputs.name = "" \/ inputs.email = ""
    /\ inputs' = [inputs EXCEPT !.notice = "Please enter both name and email"]
    /\ UNCHANGED <<awaiter, modal, promise, ended, syncVars, promoVars,
                   diffVars, reqVars, concVars, reportVars, faultVars>>

\* GitConfigModal, lines 1409-1412: the Cancel button is this.close() alone
ClickCancelIdentity ==
    /\ modal = "open"
    /\ awaiter = "performGitSetup"
    /\ modal' = "closed"
    /\ UNCHANGED <<awaiter, promise, inputs, ended, syncVars, promoVars,
                   diffVars, reqVars, concVars, reportVars, faultVars>>

\* SystemRequirementsModal: this.close(); this.onCloseCallback(), which
\* resolves with requirements.every(r => r.status === 'pass')
ClickClose ==
    /\ modal = "open"
    /\ awaiter = "checkSystemRequirements"
    /\ modal' = "closed"
    /\ promise' = IF inputs.allPassed THEN "true" ELSE "false"
    /\ UNCHANGED <<awaiter, inputs, ended, syncVars, promoVars, diffVars,
                   reqVars, concVars, reportVars, faultVars>>

\* Escape, a click outside the dialog or its close icon: Modal.close()
\* calls onClose(), which in the three dialogs is contentEl.empty() alone
Dismiss ==
    /\ modal = "open"
    /\ modal' = "closed"
    /\ UNCHANGED <<awaiter, promise, inputs, ended, syncVars, promoVars,
                   diffVars, reqVars, concVars, reportVars, faultVars>>

\* the promise is resolved: the operation resumes after its await and runs
\* to its return
ResumeAwaiter ==
    /\ awaiter # "none"
    /\ promise \notin {"none", "pending"}
    /\ ended' = Append(ended, [op |-> awaiter, value |-> promise])
    /\ awaiter' = "none"
    /\ promise' = "none"
    /\ inputs' = NoInputs
    /\ UNCHANGED <<modal, syncVars, promoVars, diffVars, reqVars, concVars,
                   reportVars, faultVars>>

DialogNext ==
    \/ OpenConfirmPromotion
    \/ OpenGitConfig
    \/ OpenSystemRequirements
    \/ TypeIdentity
    \/ ClickConfirm
    \/ ClickCancel
    \/ ClickSave
    \/ ClickSaveEmpty
    \/ ClickCancelIdentity
    \/ ClickClose
    \/ Dismiss
    \/ ResumeAwaiter

DialogSpec == DialogInit /\ [][DialogNext]_vars

\* the user closes an open dialog, by a button or without one
UserCloses ==
    \/ ClickConfirm
    \/ ClickCancel
    \/ ClickSave
    \/ ClickCancelIdentity
    \/ ClickClose
    \/ Dismiss

\* an open dialog is closed in the end, and the event loop runs the
\* continuation of a resolved promise
DialogFairSpec ==
    DialogSpec /\ WF_vars(UserCloses) /\ WF_vars(ResumeAwaiter)

(***************************************************************************)
(* Directory synchronisation: claims C1 - C3                               *)
(***************************************************************************)
ProtectedNames == {".git", ".obsidian", "Update Logs"}
\* a path lies under a protected name when one of its segments is protected
IsProtected(p) == \E i \in 1..Len(p) : p[i] \in ProtectedNames
NonProtectedPaths(t) == {p \in DOMAIN t : ~IsProtected(p)}
ProtectedPaths(t) == {p \in DOMAIN t : IsProtected(p)}

\* C1: whenever sync(source, target) returns without error, the paths of the
\* target outside the protected names are the paths of the source outside
\* them, and every such file of the target has the content of the
\* corresponding source file.
C1_TargetEqualsSource ==
    syncPc = "done" =>
        /\ NonProtectedPaths(target) = NonProtectedPaths(source)
        /\ \A p \in NonProtectedPaths(target) :
             isFile(target, p) => isFile(source, p) /\ target[p] = source[p]

\* C2: every entry of the target under a protected name, at any depth, still
\* exists with unchanged content after sync, whatever the source holds.
C2_ProtectedSurvive ==
    syncPc = "done" =>
        \A p \in ProtectedPaths(target0) :
            p \in DOMAIN target /\ target[p] = target0[p]

\* C3: sync creates or overwrites nothing in the target under a protected
\* name: what the target holds there after sync is what it held before.
C3_ProtectedNotFromSource ==
    syncPc = "done" =>
        \A p \in ProtectedPaths(target) :
            p \in DOMAIN target0 /\ target[p] = target0[p]

\* the two trees hold the same entries, with the same contents, outside the
\* protected names
SameOutsideProtected(s, t) ==
    /\ NonProtectedPaths(s) = NonProtectedPaths(t)
    /\ \A p \in NonProtectedPaths(s) : s[p] = t[p]

\* the files of the source the copy pass reaches: those under no .git
CopiedFiles(s) ==
    {p \in DOMAIN s : isFile(s, p) /\ \A i \in 1..Len(p) : p[i] # ".git"}

Started == runs > 0

\* C4: in every promotion run the remote branch main, the local production
\* tree and the report store are modified only after the caller approved the
\* change summary; a cancelled run ends with the outcome "cancelled" (no
\* error) and has modified none of the three.
C4_MutationOnlyAfterApproval ==
    Started =>
        /\ ~approved =>
              /\ remoteMain = base.remoteMain
              /\ prodTracked = base.prodTracked
              /\ reports = base.reports
        /\ outcome = "cancelled" => pc = "done" /\ ~approved

\* a cancelled run that had something to promote
C4_Witness ==
    /\ pc = "done"
    /\ outcome = "cancelled"
    /\ remoteWorking # remoteMain
    /\ remoteMain = base.remoteMain

\* C5: the working branch on the remote is never updated by an unconditional
\* forced push; every push of the working branch is plain or
\* force-with-lease.
C5_NoForceOnWorking ==
    \A i \in 1..Len(publishLog) :
        publishLog[i][1] = "working" =>
            publishLog[i][2] \in {"plain", "force-with-lease"}

PhaseRank(ph) ==
    CASE ph = "Validate" -> 1
      [] ph = "Repair" -> 2
      [] ph = "ConfigureIdentity" -> 3
      [] ph = "SyncWorkingBranchToRemote" -> 4
      [] ph = "ComputeDiff" -> 5
      [] ph = "AwaitConfirmation" -> 6
      [] ph = "MergeToProduction" -> 7
      [] ph = "ResyncLocalProduction" -> 8
      [] ph = "EmitReport" -> 9

\* C6: within one run the phases are entered strictly in the order Validate,
\* Repair, ConfigureIdentity, SyncWorkingBranchToRemote, ComputeDiff,
\* AwaitConfirmation, MergeToProduction, ResyncLocalProduction, EmitReport,
\* and none is entered a second time.
C6_PhasesInOrder ==
    \A i \in 1..Len(phaseLog) : \A j \in 1..Len(phaseLog) :
        i < j => PhaseRank(phaseLog[i]) < PhaseRank(phaseLog[j])

\* C7: after a run that reaches Done, the remote branch main holds the
\* content committed from the working tree (what git add -A staged) and the
\* tracked files of the local production tree are those of main: a file
\* added in the working tree is in production, a removed one is not.
C7_ProductionMatchesWorking ==
    (pc = "done" /\ outcome = "success") =>
        /\ workHead = index
        /\ remoteMain = workHead
        /\ prodTracked = remoteMain
        /\ \A f \in Files : (prodTracked[f] # 0) <=> (index[f] # 0)

ValidationFailures == {"invalidConfiguration", "gitNotInstalled", "notARepository"}

\* C8 as stated: a run that validation stopped has mutated nothing: no
\* commit, nothing published, no tree changed, no setting persisted.
C8_NoMutationAtAll ==
    outcome \in ValidationFailures => RunState = base

\* C8 as amended: a run that validation stopped has ended, has created no
\* commit, published nothing and changed no tree; the only setting it can
\* have persisted is the git path found by the search that follows a failed
\* tool-presence check.
C8_NoMutationButFoundPath ==
    outcome \in ValidationFailures =>
        /\ pc = "done"
        /\ [RunState EXCEPT !.settings = base.settings] = base
        /\ \/ settings = base.settings
           \/ /\ restarts >= 1
              /\ env.win32
              /\ settings = [base.settings EXCEPT !.customGitPath = FoundPath]

\* validation stopped a run whose working tree holds uncommitted edits,
\* after the search for git had persisted the found path
C8_Witness ==
    /\ pc = "done"
    /\ outcome = "notARepository"
    /\ settings # base.settings
    /\ workTree # workHead

LaterPhases == {"AwaitConfirmation", "MergeToProduction",
                "ResyncLocalProduction", "EmitReport"}

WorkingPublishes == {i \in 1..Len(publishLog) : publishLog[i][1] = "working"}

\* C15: within one run the branch working is published at most twice, a
\* plain publish and, only after that publish was rejected, one retry with
\* force-with-lease; no other publish is repeated.
C15_PublishAtMostTwice ==
    /\ Cardinality(WorkingPublishes) <= 2
    /\ \A i \in WorkingPublishes :
         \/ i = 1 /\ publishLog[i][2] = "plain"
         \/ i = 2 /\ publishLog[i][2] = "force-with-lease"
                  /\ publishLog[1] = <<"working", "plain">>
    /\ Cardinality({i \in 1..Len(publishLog) : publishLog[i][1] = "main"}) <= 1

\* the outcomes that report the failure of a phase, by the text of their
\* Notice
PhaseFailures ==
    {"gitCommandFailed", "createCommitFailed", "getDiffFailed",
     "pushWorkingFailed", "promoteToMainFailed", "updateProductionFailed",
     "saveReportFailed"}

\* the phase the Notice of a failure names: "Failed to push working
\* branch", "Failed to create commit", "Failed to get diff", "Failed to
\* promote to main", "Failed to update production vault", "Failed to save
\* report"; "Failed to promote changes: Git command failed: <stderr>" names
\* none
NamedPhase(o) ==
    CASE o \in {"pushWorkingFailed", "createCommitFailed"} ->
           "SyncWorkingBranchToRemote"
      [] o = "getDiffFailed" -> "ComputeDiff"
      [] o = "promoteToMainFailed" -> "MergeToProduction"
      [] o = "updateProductionFailed" -> "ResyncLocalProduction"
      [] o = "saveReportFailed" -> "EmitReport"
      [] OTHER -> "none"

\* C17: a run that ends with the failure of a phase reports it with the name
\* of the phase in which it occurred.
C17_FailureNamesPhase ==
    (pc = "done" /\ outcome \in PhaseFailures) =>
        NamedPhase(outcome) = phaseLog[Len(phaseLog)]

\* C18: no failure of a git command is swallowed, "nothing to commit"
\* aside: a run ends with "No changes to promote" only when the comparison
\* of the two remote branches ran and found them equal, never because a
\* command of GitService.diff failed.
C18_NoSwallowedFailure ==
    (pc = "done" /\ outcome = "nothingToPromote") =>
        remoteWorking = remoteMain

\* the end of a run whose merge succeeded and whose update of the
\* production vault failed, with nothing edited since
AfterFailedUpdate ==
    /\ pc = "done"
    /\ outcome = "updateProductionFailed"
    /\ prodTracked # remoteMain
    /\ remoteMain = remoteWorking
    /\ remoteWorking = workHead
    /\ workHead = index
    /\ index = workTree

\* C37: a run never ends with "No changes to promote" while the
\* production vault differs from the remote branch main: a run that failed
\* after the merge is repaired by invoking the command again.
C37_NothingToPromoteMeansInSync ==
    (pc = "done" /\ outcome = "nothingToPromote") =>
        prodTracked = remoteMain

\* C39: a run of "Generate Change Report" never changes the remote branch
\* main nor the tracked content of the production vault, on any path: apart
\* from the commit and the publish of the working branch it stores at most
\* one report, and it changes no setting.
C39_ReportRunFrame ==
    Started =>
        /\ remoteMain = base.remoteMain
        /\ prodTracked = base.prodTracked
        /\ settings = base.settings
        /\ reports \in {base.reports, base.reports + 1}
        /\ reports # base.reports => (pc = "done" /\ outcome = "success")

\* a run committed the edits of the working vault, published the working
\* branch and stored its report
C39_Witness ==
    /\ pc = "done"
    /\ outcome = "success"
    /\ reports = base.reports + 1
    /\ workHead # base.workHead
    /\ remoteWorking = workHead
    /\ remoteWorking # remoteMain

\* C34: every git command of a run executes with the configured or
\* discovered tool path when one is set: the fetches and the diff of
\* ComputeDiff use the command the other steps of the run use.
C34_DiffUsesConfiguredPath ==
    [][(pc = "diff" /\ pc' # "diff" /\ settings.customGitPath # "") =>
          getGitCommand(workingGitService.customGitPath)
            = getGitCommand(settings.customGitPath)]_vars

\* C27: the commit step of a run goes on to the publish of the working
\* branch when there is nothing to commit or the commit was made; when the
\* commit of staged changes fails, the run ends with the commit error and
\* nothing has been published.
C27_CommitFailureAborts ==
    [][(pc = "commit" /\ pc' # "commit") =>
          IF index = workHead
          THEN pc' = "push" /\ outcome' = outcome
          ELSE \/ workHead' = index /\ pc' = "push"
               \/ /\ pc' = "done"
                  /\ outcome' = "createCommitFailed"
                  /\ publishLog' = <<>>]_vars

\* C28: one invocation of the promotion persists a discovered git path and
\* starts promoteChanges again at most once, whatever the check of the git
\* installation gives after the restart.
C28_RestartAtMostOnce == restarts <= 1

(***************************************************************************)
(* Diff classifier: claims C10 - C14                                       *)
(***************************************************************************)
\* the sections of the text handed to parseDiff that begin with a header
\* naming a pair of paths
HeaderSections ==
    SelectSeq(fileSections(diffText),
              LAMBDA sec : /\ sec[1].k = "header"
                           /\ sec[1].a # NoPath /\ sec[1].b # NoPath)

\* the sections whose header names a destination outside the excluded
\* locations: the sections parseDiff reports, in order
ReportedSections ==
    SelectSeq(HeaderSections, LAMBDA sec : ~shouldExcludeFile(sec[1].b))

\* the lines of a section that precede its first hunk or hunk text line
HeaderPart(sec) ==
    LET body == {i \in 1..Len(sec) : sec[i].k \in {"hunk", "body", "plus", "minus"}}
    IN  IF body = {} THEN sec
        ELSE SubSeq(sec, 1, (CHOOSE i \in body : \A j \in body : i <= j) - 1)

LinesOfKind(seq, k) == {i \in 1..Len(seq) : seq[i].k = k}

\* a section that carries rename markers: its header part holds one
\* similarity line, one "rename from" line and a "rename to" line
CarriesRenameMarkers(sec) ==
    /\ Cardinality(LinesOfKind(HeaderPart(sec), "sim")) = 1
    /\ Cardinality(LinesOfKind(HeaderPart(sec), "renfrom")) = 1
    /\ LinesOfKind(HeaderPart(sec), "rento") # {}

SimilarityOf(sec) ==
    sec[CHOOSE i \in LinesOfKind(HeaderPart(sec), "sim") : TRUE].n
RenameFromOf(sec) ==
    sec[CHOOSE i \in LinesOfKind(HeaderPart(sec), "renfrom") : TRUE].a

C11_OldPathIffMoved ==
    diffPc = "parsed" =>
        \A m \in 1..Len(parsed.files) :
            parsed.files[m].oldPath # NoPath <=> parsed.files[m].status = "moved"

\* C11 (amended): oldPath is set only in records of status Moved or Modified
\* whose section has a "rename from <path>" line (a move with edits keeps the
\* old path); Added and Deleted records never carry it; and a Moved record
\* carries it whenever its section has such a line.
C11_OldPathOnlyAfterRename ==
    diffPc = "parsed" =>
        /\ Len(parsed.files) = Len(ReportedSections)
        /\ \A m \in 1..Len(ReportedSections) :
             LET sec == ReportedSections[m]
                 file == parsed.files[m]
             IN  /\ file.oldPath # NoPath =>
                      /\ file.status \in {"moved", "modified"}
                      /\ RenameFromLines(sec) # {}
                 /\ file.status \in {"added", "deleted"} => file.oldPath = NoPath
                 /\ file.status = "moved" /\ RenameFromLines(sec) # {} =>
                      file.oldPath # NoPath

\* parseDiff has returned a move with edits that kept its old path, next to
\* an added file that has none
C11_Witness ==
    /\ diffPc = "parsed"
    /\ \E m \in 1..Len(parsed.files) :
         /\ parsed.files[m].status = "modified"
         /\ parsed.files[m].oldPath = OldMd
    /\ \E m \in 1..Len(parsed.files) :
         /\ parsed.files[m].status = "added"
         /\ parsed.files[m].oldPath = NoPath

\* a path under .git, .obsidian or Update Logs, or under any other
\* dot-prefixed top-level entry
UnderExcludedLocation(p) ==
    /\ p # NoPath
    /\ p[1] \in ProtectedNames \cup DotNames

\* C12: no FileChange of the result refers to an excluded location, neither
\* by its path nor by its oldPath, and no per-status list that the counts
\* are taken from names one.
C12_NoExcludedLocation ==
    diffPc = "parsed" =>
        /\ \A m \in 1..Len(parsed.files) :
             /\ ~UnderExcludedLocation(parsed.files[m].path)
             /\ ~UnderExcludedLocation(parsed.files[m].oldPath)
        /\ \A st \in DOMAIN parsed.filesByStatus :
             \A m \in 1..Len(parsed.filesByStatus[st]) :
                ~UnderExcludedLocation(parsed.filesByStatus[st][m])

\* the number of records of the file list that carry a status
CountStatus(files, st) == Len(SelectSeq(files, LAMBDA f : f.status = st))

\* C13: in every result of parseDiff, totalFiles is the sum of the four
\* counts, and each count is the number of records of the file list that
\* carry that status.
C13_CountsDerived ==
    diffPc = "parsed" =>
        /\ parsed.stats.totalFiles =
             parsed.stats.filesAdded + parsed.stats.filesModified
             + parsed.stats.filesDeleted + parsed.stats.filesMoved
        /\ parsed.stats.filesAdded = CountStatus(parsed.files, "added")
        /\ parsed.stats.filesModified = CountStatus(parsed.files, "modified")
        /\ parsed.stats.filesDeleted = CountStatus(parsed.files, "deleted")
        /\ parsed.stats.filesMoved = CountStatus(parsed.files, "moved")
        /\ parsed.stats.totalFiles = Len(parsed.files)

\* a result that counts one moved file and nothing else, from a text of two
\* sections of which the exclusion filter dropped one
C13_Witness ==
    /\ diffPc = "parsed"
    /\ parsed.stats.filesMoved = 1
    /\ parsed.stats.totalFiles = 1
    /\ Len(parsed.files) = 1
    /\ Len(HeaderSections) = 2

\* C14: a section git prints for an added file X (header a/X b/X, then a
\* "new file mode" line, then "--- /dev/null" as its "from" path) is
\* classified as exactly one Added record for X.
C14_NullFromIsAdded ==
    diffPc = "parsed" =>
        /\ Len(parsed.files) = Len(ReportedSections)
        /\ \A m \in 1..Len(ReportedSections) :
             LET sec == ReportedSections[m]
             IN  (/\ sec[1].a = sec[1].b
                  /\ Len(sec) >= 3
                  /\ sec[2] = NewFileMode
                  /\ sec[3] = Minus(SlashDevNull))
                 => /\ parsed.files[m].status = "added"
                    /\ parsed.files[m].path = sec[1].b

(***************************************************************************)
(* Diff classifier: claims C24 - C26, C35, C38                             *)
(***************************************************************************)
\* the status the priority list gives a section: (a) rename marker lines,
\* Moved at 100% and Modified below; (b) a null "from" path; (c) a null "to"
\* path; (d) a file mode marker line; (e) Modified
ReferenceStatus(sec) ==
    LET sims == LinesOfKind(sec, "sim")
        null(p) == p = SlashDevNull \/ p = DevNull
    IN  IF LinesOfKind(sec, "renfrom") # {} /\ LinesOfKind(sec, "rento") # {}
        THEN IF sims # {} /\ sec[FirstLine(sims)].n = 100
             THEN "moved" ELSE "modified"
        ELSE IF null(sec[1].a) THEN "added"
        ELSE IF null(sec[1].b) THEN "deleted"
        ELSE IF LinesOfKind(sec, "newfile") # {} THEN "added"
        ELSE IF LinesOfKind(sec, "delfile") # {} THEN "deleted"
        ELSE "modified"

\* C24: every reported section has the status of the first matching rule of
\* the priority list: rename markers, then a null "from" path, then a null
\* "to" path, then the file mode markers, then Modified.
C24_FirstMatchingRule ==
    diffPc = "parsed" =>
        /\ Len(parsed.files) = Len(ReportedSections)
        /\ \A m \in 1..Len(ReportedSections) :
             parsed.files[m].status = ReferenceStatus(ReportedSections[m])

\* the text of the path holds " b/" or "a/": one of its directories ends in
\* " b" or in "a"
HoldsSeparator(p) ==
    \E i \in 1..(Len(p) - 1) : EndsInSpaceB(p[i]) \/ p[i] = "data"

\* C25: for a section with header a/P b/P whose path P holds the text " b/"
\* or "a/", the two paths read off the header are both exactly P, and P is
\* the path of the section's record.
C25_BothPathsExact ==
    diffPc = "parsed" =>
        /\ Len(parsed.files) = Len(ReportedSections)
        /\ \A m \in 1..Len(ReportedSections) :
             LET sec == ReportedSections[m]
             IN  (sec[1].a = sec[1].b /\ HoldsSeparator(sec[1].a))
                 => /\ pathMatch(sec[1]) = <<sec[1].a, sec[1].b>>
                    /\ parsed.files[m].path = sec[1].b

\* the header line names a pair of paths
NamesPathPair(line) ==
    line.k = "header" /\ line.a # NoPath /\ line.b # NoPath

\* the header line that opens the section line i lies in, 0 before the
\* first header
SectionStart(i) ==
    LET hs == {j \in 1..i : diffText[j].k = "header"}
    IN  IF hs = {} THEN 0 ELSE CHOOSE j \in hs : \A h \in hs : h <= j

\* the lines of sections whose header names no pair of paths
MalformedLines ==
    {i \in 1..Len(diffText) :
        SectionStart(i) = 0 \/ ~NamesPathPair(diffText[SectionStart(i)])}

\* the diff text without its malformed sections
WellFormedText ==
    LET keep == (1..Len(diffText)) \ MalformedLines
        nth(m) == CHOOSE i \in keep : Cardinality({j \in keep : j < i}) = m - 1
    IN  [m \in 1..Cardinality(keep) |-> diffText[nth(m)]]

ZeroStats ==
    [filesAdded |-> 0, filesModified |-> 0, filesDeleted |-> 0,
     filesMoved |-> 0, totalFiles |-> 0]

\* C26: parseDiff gives a text with malformed sections (no pair of paths in
\* the header) the result it gives the text without them: a malformed
\* section adds no record and no count and leaves the records of the other
\* sections as they are; the empty text gives no record and counts of zero.
C26_MalformedSkipped ==
    diffPc = "parsed" =>
        /\ MalformedLines # {} => parsed = parseDiff(WellFormedText)
        /\ Len(parsed.files) <= Len(HeaderSections)
        /\ parsed.stats.totalFiles = Len(parsed.files)
        /\ diffText = <<>> => parsed.files = <<>> /\ parsed.stats = ZeroStats

\* a text of three sections is parsed: a well-formed one, a malformed one
\* with a line under its header, and a well-formed one
C26_Witness ==
    /\ diffPc = "parsed"
    /\ Len(diffText) = 4
    /\ NamesPathPair(diffText[1])
    /\ diffText[2] = Header(NoPath, NoPath)
    /\ diffText[3] = NewFileMode
    /\ NamesPathPair(diffText[4])
    /\ Len(parsed.files) = 2

\* C35: the per-status lists a promotion shows for confirmation and tests
\* for emptiness (parseDiffOutput) are those of the change set classify
\* makes of the same diff text for the report (parseDiff): same files, same
\* statuses, same exclusions.
C35_PromotionListsAreClassified ==
    diffPc = "parsed" =>
        LET lists == parseDiffOutput(diffText)
        IN  /\ lists.added = parsed.filesByStatus.added
            /\ lists.modified = parsed.filesByStatus.modified
            /\ lists.deleted = parsed.filesByStatus.deleted
            /\ parsed.filesByStatus.moved = <<>>

\* C38: the status, path and oldPath of a section depend on its header
\* lines alone (the lines before the first hunk or file-marker line): two
\* sections with the same header lines get the same status, path and
\* oldPath, whatever their hunks say.
C38_HeaderDecides ==
    diffPc = "parsed" =>
        \A i, j \in 1..Len(HeaderSections) :
            LET si == HeaderSections[i]
                sj == HeaderSections[j]
            IN  HeaderPart(si) = HeaderPart(sj) =>
                    /\ ClassifySection(si).status = ClassifySection(sj).status
                    /\ ClassifySection(si).path = ClassifySection(sj).path
                    /\ ClassifySection(si).oldPath
                         = ClassifySection(sj).oldPath

(***************************************************************************)
(* Requirement check: claims C19 - C20                                     *)
(***************************************************************************)
\* the six checked items, by the name of their entry
CheckedItems ==
    {"Git Installation", "Git Configuration", "Working Vault Path",
     "Production Vault Path", "GitHub Token", "GitHub Repository"}

EntriesOf(reqs, name) == {i \in 1..Len(reqs) : reqs[i].name = name}

\* C19: the list the check produced holds exactly one entry for each of the
\* six checked items, whatever the other checks found: none is omitted, none
\* is reported twice.
C19_OneEntryPerItem ==
    setupPc # "idle" =>
        /\ \A name \in CheckedItems :
              Cardinality(EntriesOf(requirements, name)) = 1
        /\ Len(requirements) = Cardinality(CheckedItems)

\* git is absent from the default path and discovery finds it elsewhere
DiscoveredElsewhere ==
    /\ settings.customGitPath = ""
    /\ ~env.gitOnPath
    /\ env.win32
    /\ findGitOnWindows(env) # ""

\* C20: when git is absent from the default path and discovery finds it
\* elsewhere, the tool-presence check is reported as a warning, not as a
\* failure, and performGitSetup, which ran the check, is not blocked when
\* nothing failed.
C20_WarningDoesNotBlock ==
    (setupPc \in {"checkGit", "blocked"} /\ DiscoveredElsewhere) =>
        /\ \E i \in EntriesOf(requirements, "Git Installation") :
              requirements[i].status = "warning"
        /\ \A i \in EntriesOf(requirements, "Git Installation") :
              requirements[i].status # "fail"
        /\ (\A i \in 1..Len(requirements) :
                requirements[i].status # "fail") => setupPc = "checkGit"

(***************************************************************************)
(* Overlapping invocations: claim C21                                      *)
(***************************************************************************)
\* C21: at most one promotion is active at any time: while an invocation of
\* the command is suspended at one of its awaits, no other invocation runs
\* its phases.
C21_AtMostOneActive == Cardinality(ActiveCalls) <= 1

(***************************************************************************)
(* Report generation: claims C22, C31, C32                                 *)
(***************************************************************************)
\* C22: report generation is deterministic: two calls of generateReport with
\* the same diff text and the same metadata return the same text, whatever
\* the clock reads when they run.
C22_SameInputSameReport ==
    \A i, j \in 1..Len(generated) :
        (/\ generated[i].diffOutput = generated[j].diffOutput
         /\ generated[i].prInfo = generated[j].prInfo)
        => generated[i].text = generated[j].text

\* the lines of kind k in a section of the report
SectionLines(section, k) ==
    {i \in 1..Len(section) : section[i].k = k}

\* C31: in every generated report a file that has an old path and a
\* non-empty diff body has a sub-section with a line that shows the old
\* path, moved and modified-during-a-move alike; a file with an empty diff
\* body has no sub-section.
C31_OldPathShown ==
    \A g \in 1..Len(generated) :
        LET files == parseDiff(generated[g].diffOutput).files
            sections == generated[g].text.changes
        IN  /\ Len(sections) = Len(files)
            /\ \A i \in 1..Len(files) :
                 /\ files[i].changes = <<>> => sections[i] = NoSection
                 /\ (files[i].oldPath # NoPath /\ files[i].changes # <<>>)
                    => \E n \in SectionLines(sections[i], "movedFrom") :
                          sections[i][n].v = PathWithoutExt(files[i].oldPath)

\* the <<path, status>> pairs of the per-status lists
ListedFiles(fbs) ==
    {<<fbs.added[i], "added">> : i \in 1..Len(fbs.added)}
    \cup {<<fbs.modified[i], "modified">> : i \in 1..Len(fbs.modified)}
    \cup {<<fbs.deleted[i], "deleted">> : i \in 1..Len(fbs.deleted)}
    \cup {<<fbs.moved[i], "moved">> : i \in 1..Len(fbs.moved)}

\* the places <<folder, index>> of the tree that hold the file
PlacesOf(tree, path) ==
    {<<n, i>> \in UNION {{n} \X (1..Len(tree[n])) : n \in DOMAIN tree} :
        tree[n][i].path = path}

RECURSIVE SumOver(_, _)
SumOver(S, f) ==
    IF S = {} THEN 0
    ELSE LET x == CHOOSE x \in S : TRUE IN f[x] + SumOver(S \ {x}, f)

\* C32: the folder tree of every report holds each changed file exactly
\* once, tagged with its status, in the folder named by the file's directory
\* segments; the folder "(root)" holds only files without a directory
\* segment; the tree holds as many files as the change set counts.
C32_TreePlacesEachFileOnce ==
    \A g \in 1..Len(generated) :
        LET fbs == parseDiff(generated[g].diffOutput).filesByStatus
            stats == generated[g].text.summary[1]
            tree == generated[g].text.summary[2]
        IN  /\ \A f \in ListedFiles(fbs) :
                 /\ Cardinality(PlacesOf(tree, f[1])) = 1
                 /\ \A pl \in PlacesOf(tree, f[1]) :
                      /\ tree[pl[1]][pl[2]].status = f[2]
                      /\ tree[pl[1]][pl[2]].name = f[1][Len(f[1])]
                      /\ Len(f[1]) > 1 => pl[1] = SubSeq(f[1], 1, Len(f[1]) - 1)
            /\ RootFolder \in DOMAIN tree =>
                 \A i \in 1..Len(tree[RootFolder]) :
                    Len(tree[RootFolder][i].path) = 1
            /\ SumOver(DOMAIN tree, [n \in DOMAIN tree |-> Len(tree[n])])
                 = stats.totalFiles

(***************************************************************************)
(* Filesystem errors of sync: claim C33                                    *)
(***************************************************************************)
\* the class of an error code
ClassOf(code) ==
    CASE code = "EACCES" -> "permission"
      [] code = "ENOSPC" -> "no-space"
      [] code = "ENOENT" -> "not-found"
      [] OTHER -> "other"

\* the class a part of a message names, "none" when it names no class
ClassNamed(part) ==
    CASE part = "Permission denied while copying files" -> "permission"
      [] part = "Insufficient disk space to copy files" -> "no-space"
      [] part = "File or directory not found" -> "not-found"
      [] part = "File system error" -> "other"
      [] OTHER -> "none"

\* the class the message of a surfaced error gives: that of its outermost
\* part that names one, "none" when it is the raw error under "Failed to"
Classification(message) ==
    LET named == {i \in 1..Len(message) : ClassNamed(message[i]) # "none"}
    IN  IF named = {} THEN "none" ELSE ClassNamed(message[FirstLine(named)])

\* C33: the error sync surfaces carries the class of the error that was
\* raised (permission, no-space, not-found, other), at whatever depth and in
\* whichever pass it was raised.
C33_ClassSurvives ==
    (thrown # NoError /\ frames = <<>>) =>
        Classification(thrown.message) = ClassOf(thrown.origin)

(***************************************************************************)
(* Dialogs: claim C36                                                      *)
(***************************************************************************)
\* C36: every operation that waits on a dialog resumes and returns,
\* whichever way the user closes the dialog: by the confirm button, by the
\* cancel or close button, or without a button.
C36_AwaiterResumes == (awaiter # "none") ~> (awaiter = "none")

(***************************************************************************)
(* Git setup: claims C23, C29, C30                                         *)
(***************************************************************************)
\* C23: the GitHub token appears in nothing the setup shows or logs,
\* whatever command fails: no Notice and no console line contains it.
C23_TokenNeverShown == \A m \in shown : ~m.hasToken

GlobalWrites == {w \in configWrites : w[1] = "--global"}
LocalWrites == {w \in configWrites : w[1] = "--local"}

\* C29 as the specification states it: when the identity step asked for a
\* name and an email, they are kept in the plugin settings and the global
\* git configuration is not written.
C29_GlobalConfigUntouched ==
    identityStep.asked =>
        identity.pluginSettings /\ GlobalWrites = {}

\* C29 (amended): when the identity step asked for a name and an email they
\* are kept in the plugin settings; the global git configuration is written
\* exactly when that step saved the settings and its "git config --global"
\* succeeded; no local configuration is written before the setup reaches
\* the vaults, and then only in the working and production vaults.
C29_SettingsThenGlobal ==
    /\ identityStep.asked => identity.pluginSettings
    /\ GlobalWrites # {} <=> identityStep.globalOk
    /\ setupPc \in {"idle", "checked", "blocked", "checkGit", "gitMissing",
                    "configure", "remote"} => LocalWrites = {}
    /\ LocalWrites \subseteq {<<"--local", "working">>,
                              <<"--local", "production">>}

\* the identity was unset when the setup reached the identity step, the
\* modal stored it and wrote the global configuration, and the setup went
\* on to write the local configuration of the working vault
C29_Witness ==
    /\ identityStep.asked
    /\ identityStep.globalOk
    /\ <<"--global", "production">> \in configWrites
    /\ <<"--local", "working">> \in configWrites
    /\ setupPc = "complete"

\* the entries of the check of the git identity that passed
PassedConfiguration ==
    {i \in EntriesOf(requirements, "Git Configuration") :
        requirements[i].status = "pass"}

\* C30: when the identity check passes, its message names the source that
\* provided the name and the email: the global git configuration when
\* checkGitConfigured took them from it, the plugin settings only when it
\* fell back on them.
C30_MessageNamesProvider ==
    setupPc \in {"checked", "blocked"} =>
        \A i \in PassedConfiguration :
            /\ IdentityProvider(settings, env, identity) = "Git global config"
                  => requirements[i].message = "from Git global config"
            /\ IdentityProvider(settings, env, identity) = "plugin settings"
                  => requirements[i].message = "from plugin settings"

====
